---- MODULE Spec2Model ----
(***************************************************************************)
(* NEXMAX dashboard logic layer: the PostgreSQL adapter (executeQuery,     *)
(* checkDatabaseConnection, testDatabaseTables), the seven dashboard logic *)
(* classes (fetch -> aggregate -> shape -> fallback) and the logic index   *)
(* (initializeAllDashboards, getSystemHealth).                             *)
(*                                                                         *)
(* Numbers are fixed-point hundredths: the JS number 4.83 is 483.          *)
(***************************************************************************)
EXTENDS Integers, Sequences, FiniteSets, TLC

VARIABLES
    dbUp,        \* the database server accepts connections
    existing,    \* the tables that exist in the database
    checkedOut,  \* clients handed out by pool.connect() and not released
    xpc,         \* executeQuery call slot -> position in executeQuery
    xtable,      \* executeQuery call slot -> table the SQL text reads
    ncalls,      \* executeQuery calls started so far
    xlog,        \* executeQuery call slot -> attempts made, error raised, error thrown
    hpc,         \* position of getSystemHealth
    hconn,       \* connectionTest (result of checkDatabaseConnection)
    hidx,        \* testDatabaseTables: index of the table being tested
    hresults,    \* testDatabaseTables: results[table].exists
    health,      \* the healthStatus object getSystemHealth returned
    nhealth,     \* getSystemHealth calls started so far
    fpc,         \* position of the module fetch: idle, running, returned, thrown
    fmod,        \* the module whose entry point was called
    farg,        \* its arguments <<currency, year, month>>
    fpart,       \* awaited promise -> its state and value
    qres,        \* query -> what pool.query answered
    qissued,     \* the queries the fetch has handed to pool.query
    report,      \* the report the entry point returned
    apc,         \* position of initializeAllDashboards
    aarg,        \* its arguments <<currency, year, month>>
    acall,       \* module -> the arguments its fetch was called with
    aprom,       \* module -> the promise of its fetch
    aerr,        \* the module whose rejection Promise.all rejected with
    dash,        \* the combined object initializeAllDashboards returned
    gens,        \* meta.generatedAt of the calls that returned before the latest call
    now,         \* the wall clock read by new Date()
    store,       \* the rows of table transactions
    oarg,        \* arguments of the last fetchKPIData call of the overview
    okpi,        \* the KPI list it returned, <<>> once the table has changed since
    ucall,       \* the last call of a formatters.js function: its name and arguments
    uout,        \* how that call completed: returned value or thrown error
    rstore,      \* what the store answers: queries fail, match no row, match rows
    rkey,        \* the module and filter fetched since the store last changed
    rreports,    \* the reports those fetches returned, in call order
    spc,         \* position of setupDatabase: idle, running, returned
    sidx,        \* initializeDatabaseTables: index of the next query of createTablesQueries
    sret,        \* what setupDatabase returned
    qsent,       \* the last pool.query call: function, arguments, SQL text, parameter list
    qtexts,      \* function -> the SQL texts its calls have sent so far
    cstore,      \* filter -> what the store answers to queries with that filter
    cmod,        \* concurrent call -> the module whose shared instance it uses
    cpc,         \* concurrent call -> position: idle, running, returned, thrown
    carg,        \* concurrent call -> its arguments <<currency, year, month>>
    cpart,       \* concurrent call -> awaited promise -> its state and value
    creport,     \* concurrent call -> the report it returned
    lpc,         \* position of the initializeAllDashboards call whose queries are counted
    lsections,   \* section queries of business flow that hold a client
    lwait        \* pool.query calls waiting for a client

poolVars == <<dbUp, existing, checkedOut, xpc, xtable, ncalls, xlog>>
healthVars == <<hpc, hconn, hidx, hresults, health, nhealth>>
fetchVars == <<fpc, fmod, farg, fpart, qres, qissued, report>>
facadeVars == <<apc, aarg, acall, aprom, aerr, dash, gens>>
storeVars == <<store, oarg, okpi>>
utilVars == <<ucall, uout>>
repeatVars == <<rstore, rkey, rreports>>
setupVars == <<spc, sidx, sret>>
sqlVars == <<qsent, qtexts>>
concVars == <<cstore, cmod, cpc, carg, cpart, creport>>
loadVars == <<lpc, lsections, lwait>>
moreVars == <<sqlVars, concVars, loadVars>>
otherVars == <<storeVars, utilVars, repeatVars, setupVars, moreVars>>
baseVars ==
    <<poolVars, healthVars, fetchVars, facadeVars, now, storeVars, utilVars, repeatVars,
      setupVars>>
vars == <<poolVars, healthVars, fetchVars, facadeVars, now, otherVars>>

----------------------------------------------------------------------------
(* Bounds of the model *)

\* concurrent executeQuery callers
MaxClients == 2
\* executeQuery calls per behaviour
MaxCalls == 3
\* tables missing from the database in the initial state
MaxMissing == 1
\* getSystemHealth calls per behaviour
MaxHealthChecks == 2
\* ticks of the wall clock
MaxTime == 2
\* rows a grouped query returns
MaxRows == 2
\* rows inserted into table transactions
MaxStoreRows == 2
\* fetches of one module against an unchanged store
MaxFetches == 2

----------------------------------------------------------------------------
(* JS values held by rows, KPI entries and chart arrays.  The driver is     *)
(* taken to hand aggregates over as JS numbers or null, as the JSDoc of the *)
(* formatters assumes.                                                      *)

Num(h) == [k |-> "num", n |-> h]
Null == [k |-> "null", n |-> 0]
\* a hole of a sparse array: reading it gives undefined
Hole == [k |-> "undefined", n |-> 0]

\* not-a-number
NaN == [k |-> "NaN", n |-> 0]
\* a string that spells the number h / 100, e.g. "12.5"
NumericString(h) == [k |-> "numeric string", n |-> h]
\* a string that spells no number, e.g. "abc"
Text == [k |-> "text", n |-> 0]
\* a whole number n too large to be held in hundredths
Whole(n) == [k |-> "whole", n |-> n]

IsNum(v) == v.k = "num"

\* value === null || value === undefined || isNaN(value): isNaN converts its
\* argument to a number first, so undefined and "abc" are NaN, null is 0 and
\* "12.5" is 12.5
IsInvalidNumber(v) == v.k \in {"null", "undefined", "NaN", "text"}

\* typeof value === 'number': the values that have toFixed
IsNumberType(v) == v.k \in {"num", "whole", "NaN"}

\* v || 0
OrZero(v) == IF IsNum(v) /\ v.n # 0 THEN v ELSE Num(0)

\* the number a value is coerced to in arithmetic and comparisons (null -> 0)
ToNumber(v) == IF IsNum(v) THEN v.n ELSE 0

----------------------------------------------------------------------------
(* utils/formatters.js *)

Abs(n) == IF n < 0 THEN -n ELSE n
Sign(n) == IF n < 0 THEN "-" ELSE ""
Pad2(n) == IF n < 10 THEN "0" \o ToString(n) ELSE ToString(n)
Pad3(n) == IF n < 10 THEN "00" \o ToString(n) ELSE IF n < 100 THEN "0" \o ToString(n) ELSE ToString(n)

\* the integer n >= 0 with grouping separators
RECURSIVE Grouped(_)
Grouped(n) ==
    IF n < 1000 THEN ToString(n)
    ELSE Grouped(n \div 1000) \o "," \o Pad3(n % 1000)

\* Number.prototype.toFixed(2) of h hundredths
ToFixed2(h) == Sign(h) \o ToString(Abs(h) \div 100) \o "." \o Pad2(Abs(h) % 100)

\* how a call completes
Returned(v) == [k |-> "returned", val |-> v]
Thrown(error) == [k |-> "thrown", val |-> error]

\* the currency symbol Intl.NumberFormat('en-MY', { style: 'currency' }) puts
\* before the digits (the README's examples: "RM 15,000.00", "$25,000.00")
CurrencySymbol(currency) == IF currency = "MYR" THEN "RM " ELSE "$"

\* the codes Intl.NumberFormat accepts as currency: three letters; any other
\* text makes the constructor throw RangeError (invalid currency code)
IsWellFormedCurrencyCode(currency) == currency \in {"MYR", "USD"}

\* the variant that uses the currency symbol in the default text
formatCurrencyCall_symbol(amount, currency) ==
    IF IsInvalidNumber(amount) THEN Returned(CurrencySymbol(currency) \o "0.00")
    ELSE IF ~IsWellFormedCurrencyCode(currency) THEN Thrown("RangeError")
    ELSE Returned(Sign(amount.n) \o CurrencySymbol(currency)
                    \o Grouped(Abs(amount.n) \div 100) \o "." \o Pad2(Abs(amount.n) % 100))

\* formatCurrency(amount, currency), decimals = 2: how the call completes
formatCurrencyCall(amount, currency) ==
    IF IsInvalidNumber(amount) THEN Returned(currency \o " 0.00")
    ELSE IF ~IsWellFormedCurrencyCode(currency) THEN Thrown("RangeError")
    ELSE Returned(Sign(amount.n) \o CurrencySymbol(currency)
                    \o Grouped(Abs(amount.n) \div 100) \o "." \o Pad2(Abs(amount.n) % 100))

\* the string formatCurrency returns
formatCurrency(amount, currency) == formatCurrencyCall(amount, currency).val

\* formatPercentage(value), decimals = 2: how the call completes; a string
\* has no toFixed, so a numeric string gets past the guard and throws
formatPercentageCall(value) ==
    IF IsInvalidNumber(value) THEN Returned("0.00%")
    ELSE IF ~IsNumberType(value) THEN Thrown("TypeError")
    ELSE Returned(ToFixed2(value.n) \o "%")

\* the string formatPercentage returns
formatPercentage(value) == formatPercentageCall(value).val

\* the digits of h hundredths as String(value) spells them
Spell(h) ==
    Sign(h) \o ToString(Abs(h) \div 100)
      \o (IF Abs(h) % 100 = 0 THEN ""
          ELSE IF Abs(h) % 10 = 0 THEN "." \o ToString((Abs(h) % 100) \div 10)
          ELSE "." \o Pad2(Abs(h) % 100))

\* formatNumber(value), decimals = 0: rounded to an integer, grouped; a
\* string's toLocaleString returns the string itself
formatNumber(value) ==
    IF IsInvalidNumber(value) THEN "0"
    ELSE IF value.k = "numeric string" THEN Spell(value.n)
    ELSE LET r == (Abs(value.n) + 50) \div 100
         IN  (IF value.n < 0 /\ r > 0 THEN "-" ELSE "") \o Grouped(r)

\* (x / d).toFixed(1) for x >= 0 and d a multiple of 10: one decimal, the
\* nearer tenth, the larger one on a tie
OneDecimal(x, d) ==
    LET tenth == d \div 10
        tenths == (x \div d) * 10 + (x % d) \div tenth
                    + (IF 2 * ((x % d) % tenth) >= tenth THEN 1 ELSE 0)
    IN  ToString(tenths \div 10) \o "." \o ToString(tenths % 10)

\* the variant that abbreviates from 1e4, 1e7 and 1e10 on
formatLargeNumber_late(value) ==
    IF IsInvalidNumber(value) THEN "0"
    ELSE LET scale == IF value.k = "whole" THEN 1 ELSE 100
             units == value.n \div scale
         IN  IF units >= 10000000 THEN OneDecimal(value.n, 1000000 * scale) \o "M"
             ELSE IF units >= 10000 THEN OneDecimal(value.n, 1000 * scale) \o "K"
             ELSE IF value.k = "whole" THEN ToString(value.n)
             ELSE Spell(value.n)

\* formatLargeNumber(value): K, M, B from 1e3, 1e6, 1e9 on, else
\* value.toString()
formatLargeNumber(value) ==
    IF IsInvalidNumber(value) THEN "0"
    ELSE LET scale == IF value.k = "whole" THEN 1 ELSE 100
             units == value.n \div scale
         IN  IF units >= 1000000000 THEN OneDecimal(value.n, 1000000000 * scale) \o "B"
             ELSE IF units >= 1000000 THEN OneDecimal(value.n, 1000000 * scale) \o "M"
             ELSE IF units >= 1000 THEN OneDecimal(value.n, 1000 * scale) \o "K"
             ELSE IF value.k = "whole" THEN ToString(value.n)
             ELSE Spell(value.n)

\* formatDuration(milliseconds): Math.floor of null is 0, of undefined, NaN
\* and "abc" it is NaN, which fails every comparison and is printed as NaN
formatDuration(milliseconds) ==
    IF milliseconds.k \in {"undefined", "NaN", "text"} THEN "NaNs"
    ELSE LET ms == IF milliseconds.k = "whole" THEN milliseconds.n
                   ELSE milliseconds.n \div 100
             seconds == ms \div 1000
             minutes == seconds \div 60
             hours == minutes \div 60
             days == hours \div 24
         IN  IF days > 0
               THEN ToString(days) \o "d " \o ToString(hours % 24) \o "h "
                      \o ToString(minutes % 60) \o "m"
             ELSE IF hours > 0
               THEN ToString(hours) \o "h " \o ToString(minutes % 60) \o "m"
             ELSE IF minutes > 0
               THEN ToString(minutes) \o "m " \o ToString(seconds % 60) \o "s"
             ELSE ToString(seconds) \o "s"

\* Number.prototype.toLocaleString(): grouped, trailing zeros of the fraction dropped
toLocaleString(value) ==
    LET a == Abs(value.n)
        f == a % 100
    IN  Sign(value.n) \o Grouped(a \div 100)
          \o (IF f = 0 THEN ""
              ELSE IF f % 10 = 0 THEN "." \o ToString(f \div 10)
              ELSE "." \o Pad2(f))

\* the variant without the special case for previous === 0: x / 0 is NaN for
\* x = 0 (and infinite otherwise, shown as NaN too)
calculateChange_unguarded(current, previous) ==
    IF previous.n = 0 THEN NaN
    ELSE Num(((ToNumber(current) - previous.n) * 10000) \div previous.n)

\* the variant that answers -100 for a negative current when previous is 0
calculateChange_signed(current, previous) ==
    IF previous.n = 0
      THEN (IF ToNumber(current) > 0 THEN Num(10000)
            ELSE IF ToNumber(current) < 0 THEN Num(-10000) ELSE Num(0))
      ELSE Num(((ToNumber(current) - previous.n) * 10000) \div previous.n)

\* calculateChange(current, previous): 100 or 0 when previous === 0, else the
\* percentage change (in hundredths, rounded down)
calculateChange(current, previous) ==
    IF previous.n = 0
      THEN (IF ToNumber(current) > 0 THEN Num(10000) ELSE Num(0))
      ELSE Num(((ToNumber(current) - previous.n) * 10000) \div previous.n)

----------------------------------------------------------------------------
(* rows of a query result and the array idioms of the logic classes.       *)
(* A row carries its grouping keys (month, tier, label) and one value that  *)
(* every aggregate column of the row holds.                                 *)

\* the grouping columns whose value becomes a chart category
LabelColumns ==
    { "sport_type", "race_type", "sport_name", "bet_type", "department",
      "game_type", "bet_size_category", "service_type", "customer_segment",
      "service_category", "system_component", "resource_type", "error_type" }

\* row.<column>
Field(row, column) ==
    IF column = "month" THEN row.month
    ELSE IF column = "tier" THEN row.tier
    ELSE IF column \in LabelColumns THEN row.label
    ELSE IF column \in DOMAIN row THEN row[column]
    ELSE row.value

\* one entry of a kpiData list
Kpi(title, value, change, icon, color) ==
    [title |-> title, value |-> value, change |-> change, icon |-> icon, color |-> color]

\* result.rows.map(row => row.column)
Map(rows, column) == [i \in 1..Len(rows) |-> Field(rows[i], column)]

\* result.rows.map(row => row.column || 0)
MapOrZero(rows, column) == [i \in 1..Len(rows) |-> OrZero(Field(rows[i], column))]

\* array.indexOf(x), 0-based, -1 when absent
IndexOf(array, x) ==
    IF \E i \in 1..Len(array) : array[i] = x
      THEN (CHOOSE i \in 1..Len(array) : array[i] = x /\ \A j \in 1..(i - 1) : array[j] # x) - 1
      ELSE -1

\* const monthIndex = parseInt(row.month) - 1
monthIndex(row) == Field(row, "month") - 1

\* const tierIndex = tiers.indexOf(row.tier)
tierIndex(row) ==
    IndexOf(<<"Bronze", "Silver", "Gold", "Platinum", "Diamond">>, Field(row, "tier"))

MaxOf(S) == CHOOSE x \in S : \A y \in S : y <= x

\* the index a forEach body computes for a row: monthIndex or tierIndex
RowIndex(row, index) == IF index = "month" THEN monthIndex(row) ELSE tierIndex(row)

\* const a = []; rows.forEach(row => { a[index] = row.column || 0 }):
\* the array is as long as the largest index assigned requires and has a hole
\* at every index no row assigned (rows with index -1 are skipped)
ForEachAssign(rows, index, column) ==
    LET hits == { i \in 1..Len(rows) : RowIndex(rows[i], index) >= 0 }
        length == IF hits = {} THEN 0
                  ELSE MaxOf({ RowIndex(rows[i], index) : i \in hits }) + 1
    IN  [ j \in 1..length |->
            IF \E i \in hits : RowIndex(rows[i], index) = j - 1
              THEN OrZero(Field(rows[MaxOf({ i \in hits : RowIndex(rows[i], index) = j - 1 })],
                                column))
              ELSE Hole ]

\* array[index], 0-based: undefined for a hole and beyond the length
At(array, index) == IF index + 1 \in 1..Len(array) THEN array[index + 1] ELSE Hole

\* x * 0.8 on hundredths (truncated)
Times08(x) == Num((x.n * 8) \div 10)

\* array.reduce((a, b) => a + b, 0): holes are skipped
RECURSIVE ReduceSumFrom(_, _)
ReduceSumFrom(array, i) ==
    IF i > Len(array) THEN 0
    ELSE (IF IsNum(array[i]) THEN array[i].n ELSE 0) + ReduceSumFrom(array, i + 1)

ReduceSum(array) == Num(ReduceSumFrom(array, 1))

\* (a / b) * 100 for b > 0, on hundredths (truncated)
Percent(a, b) ==
    LET whole == (a.n * 100) \div b.n
        rest == (a.n * 100) % b.n
    IN  Num(whole * 100 + (rest * 100) \div b.n)

----------------------------------------------------------------------------
(* OverviewLogic (overview-logic.js): what each sub-fetch builds from the rows of its query, and the
   hardcoded defaults *)

\* OverviewLogic.fetchKPIData
Overview_fetchKPIData(data, currency) ==
    <<Kpi("Total Deposits", formatCurrency(OrZero(Field(data, "total_deposits")), currency),
        calculateChange(Field(data, "total_deposits"), Num(0)), "money_bag", "green"),
        Kpi("Total Withdrawals", formatCurrency(OrZero(Field(data, "total_withdrawals")), currency),
        calculateChange(Field(data, "total_withdrawals"), Num(0)), "money_with_wings",
        "red"),
        Kpi("New Depositors", toLocaleString(OrZero(Field(data, "new_depositors"))),
        calculateChange(Field(data, "new_depositors"), Num(0)), "busts_in_silhouette",
        "blue"),
        Kpi("Active Members", toLocaleString(OrZero(Field(data, "active_members"))),
        calculateChange(Field(data, "active_members"), Num(0)), "white_heavy_check_mark",
        "green")>>

\* OverviewLogic.fetchRetentionChurnData
Overview_fetchRetentionChurnData(rows) ==
    LET months == <<"Jan", "Feb", "Mar", "Apr", "May", "Jun", "Jul", "Aug", "Sep", "Oct", "Nov", "Dec">>
        retentionData == ForEachAssign(rows, "month", "retained_customers")
        churnData == ForEachAssign(rows, "month", "churned_customers")
    IN  [categories |-> months,
          retentionData |-> retentionData,
          churnData |-> churnData]

\* OverviewLogic.fetchCLVFrequencyData
Overview_fetchCLVFrequencyData(rows) ==
    LET months == <<"Jan", "Feb", "Mar", "Apr", "May", "Jun", "Jul", "Aug", "Sep", "Oct", "Nov", "Dec">>
        clvData == ForEachAssign(rows, "month", "avg_clv")
        frequencyData == ForEachAssign(rows, "month", "avg_frequency")
    IN  [categories |-> months,
          clvData |-> clvData,
          frequencyData |-> frequencyData]

\* OverviewLogic.fetchGrowthProfitabilityData
Overview_fetchGrowthProfitabilityData(rows) ==
    LET months == <<"Jan", "Feb", "Mar", "Apr", "May", "Jun", "Jul", "Aug", "Sep", "Oct", "Nov", "Dec">>
        netProfitData == ForEachAssign(rows, "month", "net_profit")
        newCustomerData == ForEachAssign(rows, "month", "new_customers")
    IN  [categories |-> months,
          series |-> <<[name |-> "Net Profit", data |-> netProfitData], [name |-> "New Customers", data |-> newCustomerData]>>]

\* OverviewLogic.fetchOperationalEfficiencyData
Overview_fetchOperationalEfficiencyData(rows) ==
    LET months == <<"Jan", "Feb", "Mar", "Apr", "May", "Jun", "Jul", "Aug", "Sep", "Oct", "Nov", "Dec">>
        revenueData == ForEachAssign(rows, "month", "total_revenue")
        costData == ForEachAssign(rows, "month", "total_cost")
    IN  [categories |-> months,
          series |-> <<[name |-> "Total Revenue", data |-> revenueData], [name |-> "Total Cost", data |-> costData]>>]

\* OverviewLogic.getDefaultKPIData
Overview_getDefaultKPIData ==
    <<Kpi("Total Deposits", "0", Num(0), "money_bag", "green"),
        Kpi("Total Withdrawals", "0", Num(0), "money_with_wings", "red"),
        Kpi("New Depositors", "0", Num(0), "busts_in_silhouette", "blue"),
        Kpi("Active Members", "0", Num(0), "white_heavy_check_mark", "green")>>

\* OverviewLogic.getDefaultRetentionChurnData
Overview_getDefaultRetentionChurnData ==
    [categories |-> <<"Jan", "Feb", "Mar", "Apr", "May", "Jun", "Jul">>,
        retentionData |-> <<Num(0), Num(0), Num(0), Num(0), Num(0), Num(0), Num(0)>>,
        churnData |-> <<Num(0), Num(0), Num(0), Num(0), Num(0), Num(0), Num(0)>>]

\* OverviewLogic.getDefaultCLVFrequencyData
Overview_getDefaultCLVFrequencyData ==
    [categories |-> <<"Jan", "Feb", "Mar", "Apr", "May", "Jun", "Jul">>,
        clvData |-> <<Num(0), Num(0), Num(0), Num(0), Num(0), Num(0), Num(0)>>,
        frequencyData |-> <<Num(0), Num(0), Num(0), Num(0), Num(0), Num(0), Num(0)>>]

\* OverviewLogic.getDefaultGrowthProfitabilityData
Overview_getDefaultGrowthProfitabilityData ==
    [categories |-> <<"Jan", "Feb", "Mar", "Apr", "May", "Jun", "Jul">>,
        series |-> <<[name |-> "Net Profit", data |-> <<Num(0), Num(0), Num(0), Num(0), Num(0), Num(0), Num(0)>>],
        [name |-> "New Customers", data |-> <<Num(0), Num(0), Num(0), Num(0), Num(0), Num(0), Num(0)>>]>>]

\* OverviewLogic.getDefaultOperationalEfficiencyData
Overview_getDefaultOperationalEfficiencyData ==
    [categories |-> <<"Jan", "Feb", "Mar", "Apr", "May", "Jun", "Jul">>,
        series |-> <<[name |-> "Total Revenue", data |-> <<Num(0), Num(0), Num(0), Num(0), Num(0), Num(0), Num(0)>>],
        [name |-> "Total Cost", data |-> <<Num(0), Num(0), Num(0), Num(0), Num(0), Num(0), Num(0)>>]>>]

----------------------------------------------------------------------------
(* BusinessFlowLogic (business-flow-logic.js): what each sub-fetch builds from the rows of its query, and the
   hardcoded defaults *)

\* BusinessFlowLogic.fetchPPCServiceData
BusinessFlow_fetchPPCServiceData(data) ==
    LET conversionRate == OrZero(Field(data, "avg_conversion_rate"))
        totalNewCustomers == OrZero(Field(data, "total_new_customers"))
        totalGroupJoinVolume == OrZero(Field(data, "total_group_join_volume"))
    IN  <<Kpi("NEW CUSTOMER CONVERSION RATE", formatPercentage(conversionRate),
          calculateChange(conversionRate, Num(0)), "bar_chart", "blue"),
          Kpi("TOTAL NEW CUSTOMERS", toLocaleString(totalNewCustomers), calculateChange(totalNewCustomers,
          Num(0)), "busts_in_silhouette", "green"),
          Kpi("CUSTOMER GROUP JOIN VOLUME", toLocaleString(totalGroupJoinVolume),
          calculateChange(totalGroupJoinVolume, Num(0)), "chart_with_upwards_trend",
          "purple")>>

\* BusinessFlowLogic.fetchFirstDepositorData
BusinessFlow_fetchFirstDepositorData(data) ==
    LET groupDepositRate == OrZero(Field(data, "group_deposit_rate"))
        nonGroupDepositRate == OrZero(Field(data, "non_group_deposit_rate"))
        groupDeposits == OrZero(Field(data, "group_deposits"))
        nonGroupDeposits == OrZero(Field(data, "non_group_deposits"))
    IN  <<Kpi("2ND DEPOSIT RATE (IN GROUP)", formatPercentage(groupDepositRate),
          calculateChange(groupDepositRate, Num(0)), "money_bag", "green"),
          Kpi("2ND DEPOSITS (IN GROUP)", toLocaleString(groupDeposits), calculateChange(groupDeposits,
          Num(0)), "bar_chart", "blue"),
          Kpi("2ND DEPOSIT RATE (NOT IN GROUP)", formatPercentage(nonGroupDepositRate),
          calculateChange(nonGroupDepositRate, Num(0)), "money_with_wings", "orange"),
          Kpi("2ND DEPOSITS (NOT IN GROUP)", toLocaleString(nonGroupDeposits), calculateChange(nonGroupDeposits,
          Num(0)), "chart_with_upwards_trend", "red")>>

\* BusinessFlowLogic.fetchOldMemberData
BusinessFlow_fetchOldMemberData(data) ==
    LET upgradedMembers == OrZero(Field(data, "upgraded_members"))
        churnedMembers == OrZero(Field(data, "churned_members"))
    IN  <<Kpi("TOTAL UPGRADED MEMBERS", toLocaleString(upgradedMembers), calculateChange(upgradedMembers,
          Num(0)), "upwards_black_arrow", "green"),
          Kpi("TOTAL CHURNED MEMBERS", toLocaleString(churnedMembers), calculateChange(churnedMembers,
          Num(0)), "downwards_black_arrow", "red")>>

\* BusinessFlowLogic.fetchTrafficExecutiveData
BusinessFlow_fetchTrafficExecutiveData(data) ==
    LET transferSuccessRate == OrZero(Field(data, "avg_transfer_success_rate"))
        targetCompletion == OrZero(Field(data, "avg_target_completion"))
        totalReactivatedCustomers == OrZero(Field(data, "total_reactivated_customers"))
    IN  <<Kpi("CUSTOMER TRANSFER SUCCESS RATE", formatPercentage(transferSuccessRate),
          calculateChange(transferSuccessRate, Num(0)), "anticlockwise_downwards_and_upwards_open_circle_arrows",
          "blue"),
          Kpi("TARGET COMPLETION", formatPercentage(targetCompletion), calculateChange(targetCompletion,
          Num(0)), "direct_hit", "green"),
          Kpi("TOTAL REACTIVATED CUSTOMERS", toLocaleString(totalReactivatedCustomers),
          calculateChange(totalReactivatedCustomers, Num(0)), "anticlockwise_downwards_and_upwards_open_circle_arrows",
          "purple")>>

\* BusinessFlowLogic.fetchPPCServiceChartData
BusinessFlow_fetchPPCServiceChartData(rows) ==
    LET months == <<"Jan", "Feb", "Mar", "Apr", "May", "Jun", "Jul", "Aug", "Sep", "Oct", "Nov", "Dec">>
        conversionData == ForEachAssign(rows, "month", "conversion_rate")
        newCustomersData == ForEachAssign(rows, "month", "new_customers")
        groupJoinData == ForEachAssign(rows, "month", "group_join_volume")
    IN  [conversionTrend |-> [labels |-> months, data |-> conversionData],
          newCustomers |-> [labels |-> months, data |-> newCustomersData],
          groupJoinVolume |-> [labels |-> months, data |-> groupJoinData]]

\* BusinessFlowLogic.fetchFirstDepositorChartData
BusinessFlow_fetchFirstDepositorChartData(rows) ==
    LET months == <<"Jan", "Feb", "Mar", "Apr", "May", "Jun", "Jul", "Aug", "Sep", "Oct", "Nov", "Dec">>
        depositRateData == ForEachAssign(rows, "month", "group_deposit_rate")
        groupComparisonData == ForEachAssign(rows, "month", "non_group_deposit_rate")
        customerCountData == ForEachAssign(rows, "month", "group_customers")
    IN  [depositRateTrend |-> [labels |-> months, data |-> depositRateData],
          depositRateComparison |-> [labels |-> <<"In Group", "Not In Group">>, data |-> <<OrZero(At(depositRateData, 6)),
          OrZero(At(groupComparisonData, 6))>>],
          customerCountByGroup |-> [labels |-> <<"In Group", "Not In Group">>, data |-> <<OrZero(At(customerCountData, 6)),
          Times08(OrZero(At(customerCountData, 6)))>>]]

\* BusinessFlowLogic.fetchOldMemberChartData
BusinessFlow_fetchOldMemberChartData(rows) ==
    LET tiers == <<"Bronze", "Silver", "Gold", "Platinum", "Diamond">>
        customerCountData == ForEachAssign(rows, "tier", "customer_count")
        upgradedMembersData == ForEachAssign(rows, "tier", "upgraded_members")
        churnedMembersData == ForEachAssign(rows, "tier", "churned_members")
        engagementRateData == ForEachAssign(rows, "tier", "avg_engagement_rate")
        npsScoreData == ForEachAssign(rows, "tier", "avg_nps_score")
        upgradeRateData == ForEachAssign(rows, "tier", "avg_upgrade_rate")
    IN  [customerCountByTier |-> [labels |-> tiers, data |-> customerCountData],
          upgradedMembersByTier |-> [labels |-> tiers, data |-> upgradedMembersData],
          churnedMembersByTier |-> [labels |-> tiers, data |-> churnedMembersData],
          engagementRateByTier |-> [labels |-> tiers, data |-> engagementRateData],
          npsScoreByTier |-> [labels |-> tiers, data |-> npsScoreData],
          upgradeRateByTier |-> [labels |-> tiers, data |-> upgradeRateData]]

\* BusinessFlowLogic.fetchTrafficExecutiveChartData
BusinessFlow_fetchTrafficExecutiveChartData(rows) ==
    LET tiers == <<"Bronze", "Silver", "Gold", "Platinum", "Diamond">>
        reactivationRateData == ForEachAssign(rows, "tier", "avg_reactivation_rate")
        reactivatedCustomersData == ForEachAssign(rows, "tier", "reactivated_customers")
        transferSuccessData == ForEachAssign(rows, "tier", "avg_transfer_success_rate")
    IN  [reactivationRateByTier |-> [labels |-> tiers, data |-> reactivationRateData],
          reactivatedCustomersByTier |-> [labels |-> tiers, data |-> reactivatedCustomersData],
          transferSuccessRate |-> [labels |-> <<"Success", "Failed">>, data |-> <<ReduceSum(transferSuccessData),
          Num(10000 - ReduceSum(transferSuccessData).n)>>]]

\* BusinessFlowLogic.getDefaultPPCServiceChartData
BusinessFlow_getDefaultPPCServiceChartData ==
    [conversionTrend |-> [labels |-> <<"Jan", "Feb", "Mar", "Apr", "May", "Jun", "Jul">>,
        data |-> <<Num(420), Num(380), Num(210), Num(390), Num(620), Num(650), Num(480)>>],
        newCustomers |-> [labels |-> <<"Jan", "Feb", "Mar", "Apr", "May", "Jun", "Jul">>,
        data |-> <<Num(4000), Num(3500), Num(2500), Num(3000), Num(15000), Num(14000), Num(6500)>>],
        groupJoinVolume |-> [labels |-> <<"Jan", "Feb", "Mar", "Apr", "May", "Jun", "Jul">>,
        data |-> <<Num(110000), Num(105000), Num(100000), Num(120000), Num(230000), Num(220000), Num(135000)>>]]

\* BusinessFlowLogic.getDefaultFirstDepositorChartData
BusinessFlow_getDefaultFirstDepositorChartData ==
    [depositRateTrend |-> [labels |-> <<"Jan", "Feb", "Mar", "Apr", "May", "Jun", "Jul">>,
        data |-> <<Num(2500), Num(2800), Num(3000), Num(3200), Num(3500), Num(3300), Num(2400)>>],
        depositRateComparison |-> [labels |-> <<"In Group", "Not In Group">>, data |-> <<Num(2422),
        Num(1180)>>],
        customerCountByGroup |-> [labels |-> <<"In Group", "Not In Group">>, data |-> <<Num(7800),
        Num(6500)>>]]

\* BusinessFlowLogic.getDefaultOldMemberChartData
BusinessFlow_getDefaultOldMemberChartData ==
    [customerCountByTier |-> [labels |-> <<"Bronze", "Silver", "Gold", "Platinum", "Diamond">>,
        data |-> <<Num(90000), Num(80000), Num(60000), Num(45000), Num(110000)>>],
        upgradedMembersByTier |-> [labels |-> <<"Bronze", "Silver", "Gold", "Platinum", "Diamond">>,
        data |-> <<Num(10000), Num(8000), Num(5000), Num(3000), Num(1000)>>],
        churnedMembersByTier |-> [labels |-> <<"Bronze", "Silver", "Gold", "Platinum", "Diamond">>,
        data |-> <<Num(6500), Num(3500), Num(2500), Num(1500), Num(500)>>],
        engagementRateByTier |-> [labels |-> <<"Bronze", "Silver", "Gold", "Platinum", "Diamond">>,
        data |-> <<Num(75), Num(80), Num(85), Num(90), Num(95)>>],
        npsScoreByTier |-> [labels |-> <<"Bronze", "Silver", "Gold", "Platinum", "Diamond">>,
        data |-> <<Num(6500), Num(7000), Num(7500), Num(8000), Num(9000)>>],
        upgradeRateByTier |-> [labels |-> <<"Bronze", "Silver", "Gold", "Platinum", "Diamond">>,
        data |-> <<Num(1150), Num(800), Num(600), Num(400), Num(100)>>]]

\* BusinessFlowLogic.getDefaultTrafficExecutiveChartData
BusinessFlow_getDefaultTrafficExecutiveChartData ==
    [reactivationRateByTier |-> [labels |-> <<"Bronze", "Silver", "Gold", "Platinum", "Diamond">>,
        data |-> <<Num(1500), Num(1200), Num(1000), Num(800), Num(500)>>],
        reactivatedCustomersByTier |-> [labels |-> <<"Bronze", "Silver", "Gold", "Platinum", "Diamond">>,
        data |-> <<Num(30000), Num(25000), Num(20000), Num(15000), Num(7800)>>],
        transferSuccessRate |-> [labels |-> <<"Success", "Failed">>, data |-> <<Num(8049), Num(1951)>>]]

\* BusinessFlowLogic.getDefaultPPCServiceData
BusinessFlow_getDefaultPPCServiceData ==
    [kpiData |-> <<Kpi("NEW CUSTOMER CONVERSION RATE", "4.83%", Num(-2823), "bar_chart", "blue"),
        Kpi("TOTAL NEW CUSTOMERS", "65", Num(-4758), "busts_in_silhouette", "green"),
        Kpi("CUSTOMER GROUP JOIN VOLUME", "1,357", Num(-2673), "chart_with_upwards_trend", "purple")>>,
        chartData |-> BusinessFlow_getDefaultPPCServiceChartData]

\* BusinessFlowLogic.getDefaultFirstDepositorData
BusinessFlow_getDefaultFirstDepositorData ==
    [kpiData |-> <<Kpi("2ND DEPOSIT RATE (IN GROUP)", "24.22%", Num(-1531), "money_bag", "green"),
        Kpi("2ND DEPOSITS (IN GROUP)", "78", Num(-5125), "bar_chart", "blue"),
        Kpi("2ND DEPOSIT RATE (NOT IN GROUP)", "11.80%", Num(-2853), "money_with_wings", "orange"),
        Kpi("2ND DEPOSITS (NOT IN GROUP)", "65", Num(-4758), "chart_with_upwards_trend", "red")>>,
        chartData |-> BusinessFlow_getDefaultFirstDepositorChartData]

\* BusinessFlowLogic.getDefaultOldMemberData
BusinessFlow_getDefaultOldMemberData ==
    [kpiData |-> <<Kpi("TOTAL UPGRADED MEMBERS", "188", Num(-1627), "upwards_black_arrow", "green"),
        Kpi("TOTAL CHURNED MEMBERS", "128", Num(-1291), "downwards_black_arrow", "red")>>,
        chartData |-> BusinessFlow_getDefaultOldMemberChartData]

\* BusinessFlowLogic.getDefaultTrafficExecutiveData
BusinessFlow_getDefaultTrafficExecutiveData ==
    [kpiData |-> <<Kpi("CUSTOMER TRANSFER SUCCESS RATE", "80.49%", Num(-727), "anticlockwise_downwards_and_upwards_open_circle_arrows",
        "blue"), Kpi("TARGET COMPLETION", "94.70%", Num(-530), "direct_hit", "green"),
        Kpi("TOTAL REACTIVATED CUSTOMERS", "978", Num(-2365), "anticlockwise_downwards_and_upwards_open_circle_arrows",
        "purple")>>,
        chartData |-> BusinessFlow_getDefaultTrafficExecutiveChartData]

----------------------------------------------------------------------------
(* StrategicExecutiveLogic (strategic-executive-logic.js): what each sub-fetch builds from the rows of its query, and the
   hardcoded defaults *)

\* StrategicExecutiveLogic.fetchKPIData
StrategicExecutive_fetchKPIData(data, currency) ==
    LET totalRevenue == OrZero(Field(data, "total_revenue"))
        totalCost == OrZero(Field(data, "total_cost"))
        netProfit == OrZero(Field(data, "net_profit"))
        totalCustomers == OrZero(Field(data, "total_customers"))
        avgCLV == OrZero(Field(data, "avg_clv"))
        activeCustomers == OrZero(Field(data, "active_customers"))
    IN  <<Kpi("Total Revenue", formatCurrency(totalRevenue, currency), calculateChange(totalRevenue,
          Num(0)), "money_bag", "green"),
          Kpi("Net Profit", formatCurrency(netProfit, currency), calculateChange(netProfit, Num(0)),
          "chart_with_upwards_trend", "blue"),
          Kpi("Total Customers", toLocaleString(totalCustomers), calculateChange(totalCustomers, Num(0)),
          "busts_in_silhouette", "purple"),
          Kpi("Avg Customer Lifetime Value", formatCurrency(avgCLV, currency), calculateChange(avgCLV,
          Num(0)), "gem_stone", "orange"),
          Kpi("Active Customers", toLocaleString(activeCustomers), calculateChange(activeCustomers, Num(0)),
          "white_heavy_check_mark", "green")>>

\* StrategicExecutiveLogic.fetchGGRUserTrend
StrategicExecutive_fetchGGRUserTrend(rows) ==
    LET months == <<"Jan", "Feb", "Mar", "Apr", "May", "Jun", "Jul", "Aug", "Sep", "Oct", "Nov", "Dec">>
        ggrData == ForEachAssign(rows, "month", "ggr_amount")
        userData == ForEachAssign(rows, "month", "user_count")
    IN  [categories |-> months,
          series |-> <<[name |-> "GGR Amount", data |-> ggrData], [name |-> "User Count", data |-> userData]>>]

\* StrategicExecutiveLogic.fetchGGRPureUserTrend
StrategicExecutive_fetchGGRPureUserTrend(rows) ==
    LET months == <<"Jan", "Feb", "Mar", "Apr", "May", "Jun", "Jul", "Aug", "Sep", "Oct", "Nov", "Dec">>
        pureGgrData == ForEachAssign(rows, "month", "pure_ggr_amount")
        pureUserData == ForEachAssign(rows, "month", "pure_user_count")
    IN  [categories |-> months,
          series |-> <<[name |-> "Pure GGR Amount", data |-> pureGgrData], [name |-> "Pure User Count",
          data |-> pureUserData]>>]

\* StrategicExecutiveLogic.fetchCustomerValueTrend
StrategicExecutive_fetchCustomerValueTrend(rows) ==
    LET months == <<"Jan", "Feb", "Mar", "Apr", "May", "Jun", "Jul", "Aug", "Sep", "Oct", "Nov", "Dec">>
        customerValueData == ForEachAssign(rows, "month", "avg_customer_value")
        headcountData == ForEachAssign(rows, "month", "headcount_count")
    IN  [categories |-> months,
          series |-> <<[name |-> "Customer Value per Headcount", data |-> customerValueData],
          [name |-> "Headcount Count", data |-> headcountData]>>]

\* StrategicExecutiveLogic.fetchCustomerCountTrend
StrategicExecutive_fetchCustomerCountTrend(rows) ==
    LET months == <<"Jan", "Feb", "Mar", "Apr", "May", "Jun", "Jul", "Aug", "Sep", "Oct", "Nov", "Dec">>
        customerCountData == ForEachAssign(rows, "month", "customer_count")
        headcountCountData == ForEachAssign(rows, "month", "headcount_count")
    IN  [categories |-> months,
          series |-> <<[name |-> "Customer Count", data |-> customerCountData], [name |-> "Headcount Count",
          data |-> headcountCountData]>>]

\* StrategicExecutiveLogic.fetchCustomerVolumeDept
StrategicExecutive_fetchCustomerVolumeDept(rows) ==
    LET departments == Map(rows, "department")
        customerCounts == Map(rows, "customer_count")
        volumes == Map(rows, "total_volume")
    IN  [categories |-> departments,
          series |-> <<[name |-> "Customer Count", data |-> customerCounts], [name |-> "Total Volume",
          data |-> volumes]>>]

\* StrategicExecutiveLogic.getDefaultKPIData
StrategicExecutive_getDefaultKPIData ==
    <<Kpi("Total Revenue", "0", Num(0), "money_bag", "green"),
        Kpi("Net Profit", "0", Num(0), "chart_with_upwards_trend", "blue"),
        Kpi("Total Customers", "0", Num(0), "busts_in_silhouette", "purple"),
        Kpi("Avg Customer Lifetime Value", "0", Num(0), "gem_stone", "orange"),
        Kpi("Active Customers", "0", Num(0), "white_heavy_check_mark", "green")>>

\* StrategicExecutiveLogic.getDefaultGGRUserTrend
StrategicExecutive_getDefaultGGRUserTrend ==
    [categories |-> <<"Jan", "Feb", "Mar", "Apr", "May", "Jun", "Jul">>,
        series |-> <<[name |-> "GGR Amount", data |-> <<Num(0), Num(0), Num(0), Num(0), Num(0), Num(0), Num(0)>>],
        [name |-> "User Count", data |-> <<Num(0), Num(0), Num(0), Num(0), Num(0), Num(0), Num(0)>>]>>]

\* StrategicExecutiveLogic.getDefaultGGRPureUserTrend
StrategicExecutive_getDefaultGGRPureUserTrend ==
    [categories |-> <<"Jan", "Feb", "Mar", "Apr", "May", "Jun", "Jul">>,
        series |-> <<[name |-> "Pure GGR Amount", data |-> <<Num(0), Num(0), Num(0), Num(0), Num(0), Num(0), Num(0)>>],
        [name |-> "Pure User Count", data |-> <<Num(0), Num(0), Num(0), Num(0), Num(0), Num(0), Num(0)>>]>>]

\* StrategicExecutiveLogic.getDefaultCustomerValueTrend
StrategicExecutive_getDefaultCustomerValueTrend ==
    [categories |-> <<"Jan", "Feb", "Mar", "Apr", "May", "Jun", "Jul">>,
        series |-> <<[name |-> "Customer Value per Headcount", data |-> <<Num(0), Num(0), Num(0), Num(0), Num(0), Num(0), Num(0)>>],
        [name |-> "Headcount Count", data |-> <<Num(0), Num(0), Num(0), Num(0), Num(0), Num(0), Num(0)>>]>>]

\* StrategicExecutiveLogic.getDefaultCustomerCountTrend
StrategicExecutive_getDefaultCustomerCountTrend ==
    [categories |-> <<"Jan", "Feb", "Mar", "Apr", "May", "Jun", "Jul">>,
        series |-> <<[name |-> "Customer Count", data |-> <<Num(0), Num(0), Num(0), Num(0), Num(0), Num(0), Num(0)>>],
        [name |-> "Headcount Count", data |-> <<Num(0), Num(0), Num(0), Num(0), Num(0), Num(0), Num(0)>>]>>]

\* StrategicExecutiveLogic.getDefaultCustomerVolumeDept
StrategicExecutive_getDefaultCustomerVolumeDept ==
    [categories |-> <<"Sales", "Marketing", "Support", "Operations">>,
        series |-> <<[name |-> "Customer Count", data |-> <<Num(0), Num(0), Num(0), Num(0)>>],
        [name |-> "Total Volume", data |-> <<Num(0), Num(0), Num(0), Num(0)>>]>>]

\* StrategicExecutiveLogic.getDefaultChartData
StrategicExecutive_getDefaultChartData ==
    [ggrUserTrend |-> StrategicExecutive_getDefaultGGRUserTrend,
        ggrPureUserTrend |-> StrategicExecutive_getDefaultGGRPureUserTrend,
        customerValueTrend |-> StrategicExecutive_getDefaultCustomerValueTrend,
        customerCountTrend |-> StrategicExecutive_getDefaultCustomerCountTrend,
        customerVolumeDept |-> StrategicExecutive_getDefaultCustomerVolumeDept]

----------------------------------------------------------------------------
(* BGOLogic (bgo-logic.js): what each sub-fetch builds from the rows of its query, and the
   hardcoded defaults *)

\* BGOLogic.fetchKPIData
BGO_fetchKPIData(data, currency) ==
    LET totalBets == OrZero(Field(data, "total_bets"))
        totalWins == OrZero(Field(data, "total_wins"))
        ggr == OrZero(Field(data, "ggr"))
        activePlayers == OrZero(Field(data, "active_players"))
        avgBetAmount == OrZero(Field(data, "avg_bet_amount"))
        totalDeposits == OrZero(Field(data, "total_deposits"))
    IN  <<Kpi("Total Bets", formatCurrency(totalBets, currency), calculateChange(totalBets, Num(0)),
          "direct_hit", "blue"),
          Kpi("Total Wins", formatCurrency(totalWins, currency), calculateChange(totalWins, Num(0)),
          "trophy", "green"),
          Kpi("Gross Gaming Revenue", formatCurrency(ggr, currency), calculateChange(ggr, Num(0)),
          "money_bag", "gold"),
          Kpi("Active Players", formatNumber(activePlayers), calculateChange(activePlayers, Num(0)),
          "busts_in_silhouette", "purple"),
          Kpi("Average Bet Amount", formatCurrency(avgBetAmount, currency), calculateChange(avgBetAmount,
          Num(0)), "bar_chart", "orange"),
          Kpi("Total Deposits", formatCurrency(totalDeposits, currency), calculateChange(totalDeposits,
          Num(0)), "credit_card", "cyan")>>

\* BGOLogic.fetchRevenueByGame
BGO_fetchRevenueByGame(rows) ==
    LET gameTypes == Map(rows, "game_type")
        revenues == MapOrZero(rows, "total_revenue")
        playerCounts == MapOrZero(rows, "player_count")
    IN  [categories |-> gameTypes,
          revenues |-> revenues,
          playerCounts |-> playerCounts]

\* BGOLogic.fetchPlayerActivityTrend
BGO_fetchPlayerActivityTrend(rows) ==
    LET months == <<"Jan", "Feb", "Mar", "Apr", "May", "Jun", "Jul", "Aug", "Sep", "Oct", "Nov", "Dec">>
        activePlayersData == ForEachAssign(rows, "month", "active_players")
        totalBetsData == ForEachAssign(rows, "month", "total_bets")
        ggrData == ForEachAssign(rows, "month", "ggr")
    IN  [categories |-> months,
          series |-> <<[name |-> "Active Players", data |-> activePlayersData], [name |-> "Total Bets",
          data |-> totalBetsData], [name |-> "GGR", data |-> ggrData]>>]

\* BGOLogic.fetchBetSizeDistribution
BGO_fetchBetSizeDistribution(rows) ==
    LET categories == Map(rows, "bet_size_category")
        betCounts == MapOrZero(rows, "bet_count")
        amounts == MapOrZero(rows, "total_amount")
    IN  [categories |-> categories,
          betCounts |-> betCounts,
          amounts |-> amounts]

\* BGOLogic.fetchWinLossRatio
BGO_fetchWinLossRatio(data) ==
    LET totalWins == OrZero(Field(data, "total_wins"))
        totalLosses == OrZero(Field(data, "total_losses"))
    IN  [categories |-> <<"Wins", "Losses">>,
          data |-> <<totalWins, totalLosses>>]

\* BGOLogic.getDefaultKPIData
BGO_getDefaultKPIData ==
    <<Kpi("Total Bets", "0", Num(0), "direct_hit", "blue"),
        Kpi("Total Wins", "0", Num(0), "trophy", "green"),
        Kpi("Gross Gaming Revenue", "0", Num(0), "money_bag", "gold"),
        Kpi("Active Players", "0", Num(0), "busts_in_silhouette", "purple"),
        Kpi("Average Bet Amount", "0", Num(0), "bar_chart", "orange"),
        Kpi("Total Deposits", "0", Num(0), "credit_card", "cyan")>>

\* BGOLogic.getDefaultRevenueByGame
BGO_getDefaultRevenueByGame ==
    [categories |-> <<"Slots", "Table Games", "Live Casino", "Sports", "Virtual">>,
        revenues |-> <<Num(0), Num(0), Num(0), Num(0), Num(0)>>,
        playerCounts |-> <<Num(0), Num(0), Num(0), Num(0), Num(0)>>]

\* BGOLogic.getDefaultPlayerActivityTrend
BGO_getDefaultPlayerActivityTrend ==
    [categories |-> <<"Jan", "Feb", "Mar", "Apr", "May", "Jun", "Jul">>,
        series |-> <<[name |-> "Active Players", data |-> <<Num(0), Num(0), Num(0), Num(0), Num(0), Num(0), Num(0)>>],
        [name |-> "Total Bets", data |-> <<Num(0), Num(0), Num(0), Num(0), Num(0), Num(0), Num(0)>>],
        [name |-> "GGR", data |-> <<Num(0), Num(0), Num(0), Num(0), Num(0), Num(0), Num(0)>>]>>]

\* BGOLogic.getDefaultBetSizeDistribution
BGO_getDefaultBetSizeDistribution ==
    [categories |-> <<"Small (< $10)", "Medium ($10-$50)", "Large ($50-$100)",
        "High Roller (> $100)">>,
        betCounts |-> <<Num(0), Num(0), Num(0), Num(0)>>,
        amounts |-> <<Num(0), Num(0), Num(0), Num(0)>>]

\* BGOLogic.getDefaultWinLossRatio
BGO_getDefaultWinLossRatio ==
    [categories |-> <<"Wins", "Losses">>,
        data |-> <<Num(0), Num(0)>>]

\* BGOLogic.getDefaultChartData
BGO_getDefaultChartData ==
    [revenueByGame |-> BGO_getDefaultRevenueByGame,
        playerActivityTrend |-> BGO_getDefaultPlayerActivityTrend,
        betSizeDistribution |-> BGO_getDefaultBetSizeDistribution,
        winLossRatio |-> BGO_getDefaultWinLossRatio]

----------------------------------------------------------------------------
(* SRLogic (sr-logic.js): what each sub-fetch builds from the rows of its query, and the
   hardcoded defaults *)

\* SRLogic.fetchKPIData
SR_fetchKPIData(data, currency) ==
    LET totalBets == OrZero(Field(data, "total_bets"))
        totalWins == OrZero(Field(data, "total_wins"))
        totalStakes == OrZero(Field(data, "total_stakes"))
        activePlayers == OrZero(Field(data, "active_players"))
        avgOdds == OrZero(Field(data, "avg_odds"))
        winningBets == OrZero(Field(data, "winning_bets"))
        totalBetCount == OrZero(Field(data, "total_bet_count"))
        winRate == IF totalBetCount.n > 0 THEN Percent(winningBets, totalBetCount) ELSE Num(0)
    IN  <<Kpi("Total Bets Value", formatCurrency(totalBets, currency), calculateChange(totalBets, Num(0)),
          "money_bag", "blue"),
          Kpi("Total Wins", formatCurrency(totalWins, currency), calculateChange(totalWins, Num(0)),
          "trophy", "green"),
          Kpi("Total Stakes", formatCurrency(totalStakes, currency), calculateChange(totalStakes, Num(0)),
          "money_with_wings", "purple"),
          Kpi("Active Players", formatNumber(activePlayers), calculateChange(activePlayers, Num(0)),
          "busts_in_silhouette", "orange"),
          Kpi("Average Odds", ToFixed2(avgOdds.n), calculateChange(avgOdds, Num(0)),
          "bar_chart", "cyan"),
          Kpi("Win Rate", formatPercentage(winRate), calculateChange(winRate, Num(0)),
          "direct_hit", "gold")>>

\* SRLogic.fetchSportsBetting
SR_fetchSportsBetting(rows) ==
    LET sportTypes == Map(rows, "sport_type")
        totalBets == MapOrZero(rows, "total_bets")
        playerCounts == MapOrZero(rows, "player_count")
        avgOdds == MapOrZero(rows, "avg_odds")
    IN  [categories |-> sportTypes,
          totalBets |-> totalBets,
          playerCounts |-> playerCounts,
          avgOdds |-> avgOdds]

\* SRLogic.fetchRacingBetting
SR_fetchRacingBetting(rows) ==
    LET raceTypes == Map(rows, "race_type")
        totalBets == MapOrZero(rows, "total_bets")
        playerCounts == MapOrZero(rows, "player_count")
        raceCounts == MapOrZero(rows, "race_count")
    IN  [categories |-> raceTypes,
          totalBets |-> totalBets,
          playerCounts |-> playerCounts,
          raceCounts |-> raceCounts]

\* SRLogic.fetchPopularSports
SR_fetchPopularSports(rows) ==
    LET sportNames == Map(rows, "sport_name")
        betCounts == MapOrZero(rows, "bet_count")
        revenues == MapOrZero(rows, "total_revenue")
    IN  [categories |-> sportNames,
          betCounts |-> betCounts,
          revenues |-> revenues]

\* SRLogic.fetchBetTypeDistribution
SR_fetchBetTypeDistribution(rows) ==
    LET betTypes == Map(rows, "bet_type")
        betCounts == MapOrZero(rows, "bet_count")
        amounts == MapOrZero(rows, "total_amount")
    IN  [categories |-> betTypes,
          betCounts |-> betCounts,
          amounts |-> amounts]

\* SRLogic.fetchMonthlyTrends
SR_fetchMonthlyTrends(rows) ==
    LET months == <<"Jan", "Feb", "Mar", "Apr", "May", "Jun", "Jul", "Aug", "Sep", "Oct", "Nov", "Dec">>
        totalBetsData == ForEachAssign(rows, "month", "total_bets")
        totalWinsData == ForEachAssign(rows, "month", "total_wins")
        activePlayersData == ForEachAssign(rows, "month", "active_players")
    IN  [categories |-> months,
          series |-> <<[name |-> "Total Bets", data |-> totalBetsData], [name |-> "Total Wins", data |-> totalWinsData],
          [name |-> "Active Players", data |-> activePlayersData]>>]

\* SRLogic.getDefaultKPIData
SR_getDefaultKPIData ==
    <<Kpi("Total Bets Value", "0", Num(0), "money_bag", "blue"),
        Kpi("Total Wins", "0", Num(0), "trophy", "green"),
        Kpi("Total Stakes", "0", Num(0), "money_with_wings", "purple"),
        Kpi("Active Players", "0", Num(0), "busts_in_silhouette", "orange"),
        Kpi("Average Odds", "0.00", Num(0), "bar_chart", "cyan"),
        Kpi("Win Rate", "0.00%", Num(0), "direct_hit", "gold")>>

\* SRLogic.getDefaultSportsBetting
SR_getDefaultSportsBetting ==
    [categories |-> <<"Football", "Basketball", "Tennis", "Baseball", "Hockey">>,
        totalBets |-> <<Num(0), Num(0), Num(0), Num(0), Num(0)>>,
        playerCounts |-> <<Num(0), Num(0), Num(0), Num(0), Num(0)>>,
        avgOdds |-> <<Num(0), Num(0), Num(0), Num(0), Num(0)>>]

\* SRLogic.getDefaultRacingBetting
SR_getDefaultRacingBetting ==
    [categories |-> <<"Horse Racing", "Greyhound", "Virtual Racing">>,
        totalBets |-> <<Num(0), Num(0), Num(0)>>,
        playerCounts |-> <<Num(0), Num(0), Num(0)>>,
        raceCounts |-> <<Num(0), Num(0), Num(0)>>]

\* SRLogic.getDefaultPopularSports
SR_getDefaultPopularSports ==
    [categories |-> <<"Football", "Basketball", "Tennis", "Baseball", "Hockey">>,
        betCounts |-> <<Num(0), Num(0), Num(0), Num(0), Num(0)>>,
        revenues |-> <<Num(0), Num(0), Num(0), Num(0), Num(0)>>]

\* SRLogic.getDefaultBetTypeDistribution
SR_getDefaultBetTypeDistribution ==
    [categories |-> <<"Single", "Multiple", "System", "Live">>,
        betCounts |-> <<Num(0), Num(0), Num(0), Num(0)>>,
        amounts |-> <<Num(0), Num(0), Num(0), Num(0)>>]

\* SRLogic.getDefaultMonthlyTrends
SR_getDefaultMonthlyTrends ==
    [categories |-> <<"Jan", "Feb", "Mar", "Apr", "May", "Jun", "Jul">>,
        series |-> <<[name |-> "Total Bets", data |-> <<Num(0), Num(0), Num(0), Num(0), Num(0), Num(0), Num(0)>>],
        [name |-> "Total Wins", data |-> <<Num(0), Num(0), Num(0), Num(0), Num(0), Num(0), Num(0)>>],
        [name |-> "Active Players", data |-> <<Num(0), Num(0), Num(0), Num(0), Num(0), Num(0), Num(0)>>]>>]

\* SRLogic.getDefaultChartData
SR_getDefaultChartData ==
    [sportsBetting |-> SR_getDefaultSportsBetting,
        racingBetting |-> SR_getDefaultRacingBetting,
        popularSports |-> SR_getDefaultPopularSports,
        betTypeDistribution |-> SR_getDefaultBetTypeDistribution,
        monthlyTrends |-> SR_getDefaultMonthlyTrends]

----------------------------------------------------------------------------
(* XOOLogic (xoo-logic.js): what each sub-fetch builds from the rows of its query, and the
   hardcoded defaults *)

\* XOOLogic.fetchKPIData
XOO_fetchKPIData(data, currency) ==
    LET totalRevenue == OrZero(Field(data, "total_revenue"))
        totalCost == OrZero(Field(data, "total_cost"))
        netProfit == Num(totalRevenue.n - totalCost.n)
        totalCustomers == OrZero(Field(data, "total_customers"))
        avgTransactionValue == OrZero(Field(data, "avg_transaction_value"))
        totalTransactions == OrZero(Field(data, "total_transactions"))
        totalCommission == OrZero(Field(data, "total_commission"))
    IN  <<Kpi("Total Revenue", formatCurrency(totalRevenue, currency), calculateChange(totalRevenue,
          Num(0)), "money_bag", "green"),
          Kpi("Net Profit", formatCurrency(netProfit, currency), calculateChange(netProfit, Num(0)),
          "chart_with_upwards_trend", "blue"),
          Kpi("Total Customers", formatNumber(totalCustomers), calculateChange(totalCustomers, Num(0)),
          "busts_in_silhouette", "purple"),
          Kpi("Avg Transaction Value", formatCurrency(avgTransactionValue, currency),
          calculateChange(avgTransactionValue, Num(0)), "latin_small_letter_eth",
          "orange"),
          Kpi("Total Transactions", formatNumber(totalTransactions), calculateChange(totalTransactions,
          Num(0)), "latin_small_letter_eth", "cyan"),
          Kpi("Total Commission", formatCurrency(totalCommission, currency), calculateChange(totalCommission,
          Num(0)), "latin_small_letter_eth", "gold")>>

\* XOOLogic.fetchRevenueByService
XOO_fetchRevenueByService(rows) ==
    LET serviceTypes == Map(rows, "service_type")
        revenues == MapOrZero(rows, "total_revenue")
        customerCounts == MapOrZero(rows, "customer_count")
        transactionCounts == MapOrZero(rows, "transaction_count")
    IN  [categories |-> serviceTypes,
          revenues |-> revenues,
          customerCounts |-> customerCounts,
          transactionCounts |-> transactionCounts]

\* XOOLogic.fetchCustomerSegmentation
XOO_fetchCustomerSegmentation(rows) ==
    LET segments == Map(rows, "customer_segment")
        customerCounts == MapOrZero(rows, "customer_count")
        segmentValues == MapOrZero(rows, "segment_value")
        avgFrequencies == MapOrZero(rows, "avg_frequency")
    IN  [categories |-> segments,
          customerCounts |-> customerCounts,
          segmentValues |-> segmentValues,
          avgFrequencies |-> avgFrequencies]

\* XOOLogic.fetchTransactionVolume
XOO_fetchTransactionVolume(rows) ==
    LET months == <<"Jan", "Feb", "Mar", "Apr", "May", "Jun", "Jul", "Aug", "Sep", "Oct", "Nov", "Dec">>
        transactionCounts == ForEachAssign(rows, "month", "transaction_count")
        totalValues == ForEachAssign(rows, "month", "total_value")
        avgValues == ForEachAssign(rows, "month", "avg_value")
    IN  [categories |-> months,
          transactionCounts |-> transactionCounts,
          totalValues |-> totalValues,
          avgValues |-> avgValues]

\* XOOLogic.fetchProfitMargins
XOO_fetchProfitMargins(rows) ==
    LET categories == Map(rows, "service_category")
        revenues == MapOrZero(rows, "total_revenue")
        costs == MapOrZero(rows, "total_cost")
        margins == MapOrZero(rows, "profit_margin")
    IN  [categories |-> categories,
          revenues |-> revenues,
          costs |-> costs,
          margins |-> margins]

\* XOOLogic.fetchMonthlyPerformance
XOO_fetchMonthlyPerformance(rows) ==
    LET months == <<"Jan", "Feb", "Mar", "Apr", "May", "Jun", "Jul", "Aug", "Sep", "Oct", "Nov", "Dec">>
        revenueData == ForEachAssign(rows, "month", "total_revenue")
        costData == ForEachAssign(rows, "month", "total_cost")
        customerData == ForEachAssign(rows, "month", "active_customers")
        transactionData == ForEachAssign(rows, "month", "total_transactions")
    IN  [categories |-> months,
          series |-> <<[name |-> "Revenue", data |-> revenueData], [name |-> "Cost", data |-> costData],
          [name |-> "Active Customers", data |-> customerData], [name |-> "Transactions", data |-> transactionData]>>]

\* XOOLogic.getDefaultKPIData
XOO_getDefaultKPIData ==
    <<Kpi("Total Revenue", "0", Num(0), "money_bag", "green"),
        Kpi("Net Profit", "0", Num(0), "chart_with_upwards_trend", "blue"),
        Kpi("Total Customers", "0", Num(0), "busts_in_silhouette", "purple"),
        Kpi("Avg Transaction Value", "0", Num(0), "latin_small_letter_eth", "orange"),
        Kpi("Total Transactions", "0", Num(0), "latin_small_letter_eth", "cyan"),
        Kpi("Total Commission", "0", Num(0), "latin_small_letter_eth", "gold")>>

\* XOOLogic.getDefaultRevenueByService
XOO_getDefaultRevenueByService ==
    [categories |-> <<"Service A", "Service B", "Service C", "Service D">>,
        revenues |-> <<Num(0), Num(0), Num(0), Num(0)>>,
        customerCounts |-> <<Num(0), Num(0), Num(0), Num(0)>>,
        transactionCounts |-> <<Num(0), Num(0), Num(0), Num(0)>>]

\* XOOLogic.getDefaultCustomerSegmentation
XOO_getDefaultCustomerSegmentation ==
    [categories |-> <<"Premium", "Standard", "Basic", "Trial">>,
        customerCounts |-> <<Num(0), Num(0), Num(0), Num(0)>>,
        segmentValues |-> <<Num(0), Num(0), Num(0), Num(0)>>,
        avgFrequencies |-> <<Num(0), Num(0), Num(0), Num(0)>>]

\* XOOLogic.getDefaultTransactionVolume
XOO_getDefaultTransactionVolume ==
    [categories |-> <<"Jan", "Feb", "Mar", "Apr", "May", "Jun", "Jul">>,
        transactionCounts |-> <<Num(0), Num(0), Num(0), Num(0), Num(0), Num(0),
        Num(0)>>,
        totalValues |-> <<Num(0), Num(0), Num(0), Num(0), Num(0), Num(0), Num(0)>>,
        avgValues |-> <<Num(0), Num(0), Num(0), Num(0), Num(0), Num(0), Num(0)>>]

\* XOOLogic.getDefaultProfitMargins
XOO_getDefaultProfitMargins ==
    [categories |-> <<"Category A", "Category B", "Category C">>,
        revenues |-> <<Num(0), Num(0), Num(0)>>,
        costs |-> <<Num(0), Num(0), Num(0)>>,
        margins |-> <<Num(0), Num(0), Num(0)>>]

\* XOOLogic.getDefaultMonthlyPerformance
XOO_getDefaultMonthlyPerformance ==
    [categories |-> <<"Jan", "Feb", "Mar", "Apr", "May", "Jun", "Jul">>,
        series |-> <<[name |-> "Revenue", data |-> <<Num(0), Num(0), Num(0), Num(0), Num(0), Num(0), Num(0)>>],
        [name |-> "Cost", data |-> <<Num(0), Num(0), Num(0), Num(0), Num(0), Num(0), Num(0)>>],
        [name |-> "Active Customers", data |-> <<Num(0), Num(0), Num(0), Num(0), Num(0), Num(0), Num(0)>>],
        [name |-> "Transactions", data |-> <<Num(0), Num(0), Num(0), Num(0), Num(0), Num(0), Num(0)>>]>>]

\* XOOLogic.getDefaultChartData
XOO_getDefaultChartData ==
    [revenueByService |-> XOO_getDefaultRevenueByService,
        customerSegmentation |-> XOO_getDefaultCustomerSegmentation,
        transactionVolume |-> XOO_getDefaultTransactionVolume,
        profitMargins |-> XOO_getDefaultProfitMargins,
        monthlyPerformance |-> XOO_getDefaultMonthlyPerformance]

----------------------------------------------------------------------------
(* OSLogic (os-logic.js): what each sub-fetch builds from the rows of its query, and the
   hardcoded defaults *)

\* OSLogic.fetchKPIData
OS_fetchKPIData(data, currency) ==
    LET totalRevenue == OrZero(Field(data, "total_revenue"))
        totalCost == OrZero(Field(data, "total_cost"))
        netProfit == Num(totalRevenue.n - totalCost.n)
        totalUsers == OrZero(Field(data, "total_users"))
        avgUptime == OrZero(Field(data, "avg_uptime"))
        totalSessions == OrZero(Field(data, "total_sessions"))
        avgResponseTime == OrZero(Field(data, "avg_response_time"))
    IN  <<Kpi("System Revenue", formatCurrency(totalRevenue, currency), calculateChange(totalRevenue,
          Num(0)), "money_bag", "green"),
          Kpi("Net Profit", formatCurrency(netProfit, currency), calculateChange(netProfit, Num(0)),
          "chart_with_upwards_trend", "blue"),
          Kpi("Total Users", formatNumber(totalUsers), calculateChange(totalUsers, Num(0)),
          "busts_in_silhouette", "purple"),
          Kpi("System Uptime", formatPercentage(avgUptime), calculateChange(avgUptime, Num(0)),
          "high_voltage_sign", "green"),
          Kpi("Total Sessions", formatNumber(totalSessions), calculateChange(totalSessions, Num(0)),
          "bar_chart", "orange"),
          Kpi("Avg Response Time", ToFixed2(avgResponseTime.n) \o "ms", calculateChange(avgResponseTime,
          Num(0)), "stopwatch", "cyan")>>

\* OSLogic.fetchSystemPerformance
OS_fetchSystemPerformance(rows) ==
    LET components == Map(rows, "system_component")
        cpuUsage == MapOrZero(rows, "avg_cpu_usage")
        memoryUsage == MapOrZero(rows, "avg_memory_usage")
        diskUsage == MapOrZero(rows, "avg_disk_usage")
        networkUsage == MapOrZero(rows, "avg_network_usage")
    IN  [categories |-> components,
          cpuUsage |-> cpuUsage,
          memoryUsage |-> memoryUsage,
          diskUsage |-> diskUsage,
          networkUsage |-> networkUsage]

\* OSLogic.fetchUserActivity
OS_fetchUserActivity(rows) ==
    LET months == <<"Jan", "Feb", "Mar", "Apr", "May", "Jun", "Jul", "Aug", "Sep", "Oct", "Nov", "Dec">>
        activeUsersData == ForEachAssign(rows, "month", "active_users")
        totalSessionsData == ForEachAssign(rows, "month", "total_sessions")
        avgSessionDurationData == ForEachAssign(rows, "month", "avg_session_duration")
        totalPageViewsData == ForEachAssign(rows, "month", "total_page_views")
    IN  [categories |-> months,
          series |-> <<[name |-> "Active Users", data |-> activeUsersData], [name |-> "Total Sessions",
          data |-> totalSessionsData], [name |-> "Page Views", data |-> totalPageViewsData]>>]

\* OSLogic.fetchResourceUtilization
OS_fetchResourceUtilization(rows) ==
    LET resourceTypes == Map(rows, "resource_type")
        avgUtilization == MapOrZero(rows, "avg_utilization")
        maxUtilization == MapOrZero(rows, "max_utilization")
        minUtilization == MapOrZero(rows, "min_utilization")
    IN  [categories |-> resourceTypes,
          avgUtilization |-> avgUtilization,
          maxUtilization |-> maxUtilization,
          minUtilization |-> minUtilization]

\* OSLogic.fetchErrorAnalysis
OS_fetchErrorAnalysis(rows) ==
    LET errorTypes == Map(rows, "error_type")
        errorCounts == MapOrZero(rows, "error_count")
        avgResolutionTimes == MapOrZero(rows, "avg_resolution_time")
        affectedUsers == MapOrZero(rows, "affected_users")
    IN  [categories |-> errorTypes,
          errorCounts |-> errorCounts,
          avgResolutionTimes |-> avgResolutionTimes,
          affectedUsers |-> affectedUsers]

\* OSLogic.fetchMonthlyTrends
OS_fetchMonthlyTrends(rows) ==
    LET months == <<"Jan", "Feb", "Mar", "Apr", "May", "Jun", "Jul", "Aug", "Sep", "Oct", "Nov", "Dec">>
        revenueData == ForEachAssign(rows, "month", "total_revenue")
        costData == ForEachAssign(rows, "month", "total_cost")
        uptimeData == ForEachAssign(rows, "month", "avg_uptime")
        usersData == ForEachAssign(rows, "month", "active_users")
    IN  [categories |-> months,
          series |-> <<[name |-> "Revenue", data |-> revenueData], [name |-> "Cost", data |-> costData],
          [name |-> "Uptime %", data |-> uptimeData], [name |-> "Active Users", data |-> usersData]>>]

\* OSLogic.getDefaultKPIData
OS_getDefaultKPIData ==
    <<Kpi("System Revenue", "0", Num(0), "money_bag", "green"),
        Kpi("Net Profit", "0", Num(0), "chart_with_upwards_trend", "blue"),
        Kpi("Total Users", "0", Num(0), "busts_in_silhouette", "purple"),
        Kpi("System Uptime", "0.00%", Num(0), "high_voltage_sign", "green"),
        Kpi("Total Sessions", "0", Num(0), "bar_chart", "orange"),
        Kpi("Avg Response Time", "0.00ms", Num(0), "stopwatch", "cyan")>>

\* OSLogic.getDefaultSystemPerformance
OS_getDefaultSystemPerformance ==
    [categories |-> <<"Web Server", "Database", "API Gateway", "Cache">>,
        cpuUsage |-> <<Num(0), Num(0), Num(0), Num(0)>>,
        memoryUsage |-> <<Num(0), Num(0), Num(0), Num(0)>>,
        diskUsage |-> <<Num(0), Num(0), Num(0), Num(0)>>,
        networkUsage |-> <<Num(0), Num(0), Num(0), Num(0)>>]

\* OSLogic.getDefaultUserActivity
OS_getDefaultUserActivity ==
    [categories |-> <<"Jan", "Feb", "Mar", "Apr", "May", "Jun", "Jul">>,
        series |-> <<[name |-> "Active Users", data |-> <<Num(0), Num(0), Num(0), Num(0), Num(0), Num(0), Num(0)>>],
        [name |-> "Total Sessions", data |-> <<Num(0), Num(0), Num(0), Num(0), Num(0), Num(0), Num(0)>>],
        [name |-> "Page Views", data |-> <<Num(0), Num(0), Num(0), Num(0), Num(0), Num(0), Num(0)>>]>>]

\* OSLogic.getDefaultResourceUtilization
OS_getDefaultResourceUtilization ==
    [categories |-> <<"CPU", "Memory", "Disk", "Network">>,
        avgUtilization |-> <<Num(0), Num(0), Num(0), Num(0)>>,
        maxUtilization |-> <<Num(0), Num(0), Num(0), Num(0)>>,
        minUtilization |-> <<Num(0), Num(0), Num(0), Num(0)>>]

\* OSLogic.getDefaultErrorAnalysis
OS_getDefaultErrorAnalysis ==
    [categories |-> <<"Server Error", "Database Error", "Network Error", "User Error">>,
        errorCounts |-> <<Num(0), Num(0), Num(0), Num(0)>>,
        avgResolutionTimes |-> <<Num(0), Num(0), Num(0), Num(0)>>,
        affectedUsers |-> <<Num(0), Num(0), Num(0), Num(0)>>]

\* OSLogic.getDefaultMonthlyTrends
OS_getDefaultMonthlyTrends ==
    [categories |-> <<"Jan", "Feb", "Mar", "Apr", "May", "Jun", "Jul">>,
        series |-> <<[name |-> "Revenue", data |-> <<Num(0), Num(0), Num(0), Num(0), Num(0), Num(0), Num(0)>>],
        [name |-> "Cost", data |-> <<Num(0), Num(0), Num(0), Num(0), Num(0), Num(0), Num(0)>>],
        [name |-> "Uptime %", data |-> <<Num(0), Num(0), Num(0), Num(0), Num(0), Num(0), Num(0)>>],
        [name |-> "Active Users", data |-> <<Num(0), Num(0), Num(0), Num(0), Num(0), Num(0), Num(0)>>]>>]

\* OSLogic.getDefaultChartData
OS_getDefaultChartData ==
    [systemPerformance |-> OS_getDefaultSystemPerformance,
        userActivity |-> OS_getDefaultUserActivity,
        resourceUtilization |-> OS_getDefaultResourceUtilization,
        errorAnalysis |-> OS_getDefaultErrorAnalysis,
        monthlyTrends |-> OS_getDefaultMonthlyTrends]

----------------------------------------------------------------------------
(* the promises each fetch entry point awaits *)

\* OverviewLogic: the sub-fetch behind each awaited promise, applied to the rows of its query
Overview_subFetch(part, rows, currency) ==
    CASE part = "kpiData" -> Overview_fetchKPIData(rows[1], currency)
      [] part = "retentionChurnData" -> Overview_fetchRetentionChurnData(rows)
      [] part = "clvFrequencyData" -> Overview_fetchCLVFrequencyData(rows)
      [] part = "growthProfitabilityData" -> Overview_fetchGrowthProfitabilityData(rows)
      [] part = "operationalEfficiencyData" -> Overview_fetchOperationalEfficiencyData(rows)

\* OverviewLogic: the default each sub-fetch returns from its catch block
Overview_getDefault(part) ==
    CASE part = "kpiData" -> Overview_getDefaultKPIData
      [] part = "retentionChurnData" -> Overview_getDefaultRetentionChurnData
      [] part = "clvFrequencyData" -> Overview_getDefaultCLVFrequencyData
      [] part = "growthProfitabilityData" -> Overview_getDefaultGrowthProfitabilityData
      [] part = "operationalEfficiencyData" -> Overview_getDefaultOperationalEfficiencyData

\* OverviewLogic: how each sub-fetch buckets its rows
Overview_kind(part) ==
    CASE part = "kpiData" -> "kpi"
      [] part = "retentionChurnData" -> "month"
      [] part = "clvFrequencyData" -> "month"
      [] part = "growthProfitabilityData" -> "month"
      [] part = "operationalEfficiencyData" -> "month"

\* StrategicExecutiveLogic: the sub-fetch behind each awaited promise, applied to the rows of its query
StrategicExecutive_subFetch(part, rows, currency) ==
    CASE part = "kpiData" -> StrategicExecutive_fetchKPIData(rows[1], currency)
      [] part = "ggrUserTrend" -> StrategicExecutive_fetchGGRUserTrend(rows)
      [] part = "ggrPureUserTrend" -> StrategicExecutive_fetchGGRPureUserTrend(rows)
      [] part = "customerValueTrend" -> StrategicExecutive_fetchCustomerValueTrend(rows)
      [] part = "customerCountTrend" -> StrategicExecutive_fetchCustomerCountTrend(rows)
      [] part = "customerVolumeDept" -> StrategicExecutive_fetchCustomerVolumeDept(rows)

\* StrategicExecutiveLogic: the default each sub-fetch returns from its catch block
StrategicExecutive_getDefault(part) ==
    CASE part = "kpiData" -> StrategicExecutive_getDefaultKPIData
      [] part = "ggrUserTrend" -> StrategicExecutive_getDefaultGGRUserTrend
      [] part = "ggrPureUserTrend" -> StrategicExecutive_getDefaultGGRPureUserTrend
      [] part = "customerValueTrend" -> StrategicExecutive_getDefaultCustomerValueTrend
      [] part = "customerCountTrend" -> StrategicExecutive_getDefaultCustomerCountTrend
      [] part = "customerVolumeDept" -> StrategicExecutive_getDefaultCustomerVolumeDept

\* StrategicExecutiveLogic: how each sub-fetch buckets its rows
StrategicExecutive_kind(part) ==
    CASE part = "kpiData" -> "kpi"
      [] part = "ggrUserTrend" -> "month"
      [] part = "ggrPureUserTrend" -> "month"
      [] part = "customerValueTrend" -> "month"
      [] part = "customerCountTrend" -> "month"
      [] part = "customerVolumeDept" -> "category"

\* BGOLogic: the sub-fetch behind each awaited promise, applied to the rows of its query
BGO_subFetch(part, rows, currency) ==
    CASE part = "kpiData" -> BGO_fetchKPIData(rows[1], currency)
      [] part = "revenueByGame" -> BGO_fetchRevenueByGame(rows)
      [] part = "playerActivityTrend" -> BGO_fetchPlayerActivityTrend(rows)
      [] part = "betSizeDistribution" -> BGO_fetchBetSizeDistribution(rows)
      [] part = "winLossRatio" -> BGO_fetchWinLossRatio(rows[1])

\* BGOLogic: the default each sub-fetch returns from its catch block
BGO_getDefault(part) ==
    CASE part = "kpiData" -> BGO_getDefaultKPIData
      [] part = "revenueByGame" -> BGO_getDefaultRevenueByGame
      [] part = "playerActivityTrend" -> BGO_getDefaultPlayerActivityTrend
      [] part = "betSizeDistribution" -> BGO_getDefaultBetSizeDistribution
      [] part = "winLossRatio" -> BGO_getDefaultWinLossRatio

\* BGOLogic: how each sub-fetch buckets its rows
BGO_kind(part) ==
    CASE part = "kpiData" -> "kpi"
      [] part = "revenueByGame" -> "category"
      [] part = "playerActivityTrend" -> "month"
      [] part = "betSizeDistribution" -> "category"
      [] part = "winLossRatio" -> "aggregate"

\* SRLogic: the sub-fetch behind each awaited promise, applied to the rows of its query
SR_subFetch(part, rows, currency) ==
    CASE part = "kpiData" -> SR_fetchKPIData(rows[1], currency)
      [] part = "sportsBetting" -> SR_fetchSportsBetting(rows)
      [] part = "racingBetting" -> SR_fetchRacingBetting(rows)
      [] part = "popularSports" -> SR_fetchPopularSports(rows)
      [] part = "betTypeDistribution" -> SR_fetchBetTypeDistribution(rows)
      [] part = "monthlyTrends" -> SR_fetchMonthlyTrends(rows)

\* SRLogic: the default each sub-fetch returns from its catch block
SR_getDefault(part) ==
    CASE part = "kpiData" -> SR_getDefaultKPIData
      [] part = "sportsBetting" -> SR_getDefaultSportsBetting
      [] part = "racingBetting" -> SR_getDefaultRacingBetting
      [] part = "popularSports" -> SR_getDefaultPopularSports
      [] part = "betTypeDistribution" -> SR_getDefaultBetTypeDistribution
      [] part = "monthlyTrends" -> SR_getDefaultMonthlyTrends

\* SRLogic: how each sub-fetch buckets its rows
SR_kind(part) ==
    CASE part = "kpiData" -> "kpi"
      [] part = "sportsBetting" -> "category"
      [] part = "racingBetting" -> "category"
      [] part = "popularSports" -> "category"
      [] part = "betTypeDistribution" -> "category"
      [] part = "monthlyTrends" -> "month"

\* XOOLogic: the sub-fetch behind each awaited promise, applied to the rows of its query
XOO_subFetch(part, rows, currency) ==
    CASE part = "kpiData" -> XOO_fetchKPIData(rows[1], currency)
      [] part = "revenueByService" -> XOO_fetchRevenueByService(rows)
      [] part = "customerSegmentation" -> XOO_fetchCustomerSegmentation(rows)
      [] part = "transactionVolume" -> XOO_fetchTransactionVolume(rows)
      [] part = "profitMargins" -> XOO_fetchProfitMargins(rows)
      [] part = "monthlyPerformance" -> XOO_fetchMonthlyPerformance(rows)

\* XOOLogic: the default each sub-fetch returns from its catch block
XOO_getDefault(part) ==
    CASE part = "kpiData" -> XOO_getDefaultKPIData
      [] part = "revenueByService" -> XOO_getDefaultRevenueByService
      [] part = "customerSegmentation" -> XOO_getDefaultCustomerSegmentation
      [] part = "transactionVolume" -> XOO_getDefaultTransactionVolume
      [] part = "profitMargins" -> XOO_getDefaultProfitMargins
      [] part = "monthlyPerformance" -> XOO_getDefaultMonthlyPerformance

\* XOOLogic: how each sub-fetch buckets its rows
XOO_kind(part) ==
    CASE part = "kpiData" -> "kpi"
      [] part = "revenueByService" -> "category"
      [] part = "customerSegmentation" -> "category"
      [] part = "transactionVolume" -> "month"
      [] part = "profitMargins" -> "category"
      [] part = "monthlyPerformance" -> "month"

\* OSLogic: the sub-fetch behind each awaited promise, applied to the rows of its query
OS_subFetch(part, rows, currency) ==
    CASE part = "kpiData" -> OS_fetchKPIData(rows[1], currency)
      [] part = "systemPerformance" -> OS_fetchSystemPerformance(rows)
      [] part = "userActivity" -> OS_fetchUserActivity(rows)
      [] part = "resourceUtilization" -> OS_fetchResourceUtilization(rows)
      [] part = "errorAnalysis" -> OS_fetchErrorAnalysis(rows)
      [] part = "monthlyTrends" -> OS_fetchMonthlyTrends(rows)

\* OSLogic: the default each sub-fetch returns from its catch block
OS_getDefault(part) ==
    CASE part = "kpiData" -> OS_getDefaultKPIData
      [] part = "systemPerformance" -> OS_getDefaultSystemPerformance
      [] part = "userActivity" -> OS_getDefaultUserActivity
      [] part = "resourceUtilization" -> OS_getDefaultResourceUtilization
      [] part = "errorAnalysis" -> OS_getDefaultErrorAnalysis
      [] part = "monthlyTrends" -> OS_getDefaultMonthlyTrends

\* OSLogic: how each sub-fetch buckets its rows
OS_kind(part) ==
    CASE part = "kpiData" -> "kpi"
      [] part = "systemPerformance" -> "category"
      [] part = "userActivity" -> "month"
      [] part = "resourceUtilization" -> "category"
      [] part = "errorAnalysis" -> "category"
      [] part = "monthlyTrends" -> "month"

\* BusinessFlowLogic: the KPI list each section fetch builds from the row of its query
BusinessFlow_subFetch(part, rows, currency) ==
    CASE part = "ppcServiceData" -> BusinessFlow_fetchPPCServiceData(rows[1])
      [] part = "firstDepositorData" -> BusinessFlow_fetchFirstDepositorData(rows[1])
      [] part = "oldMemberData" -> BusinessFlow_fetchOldMemberData(rows[1])
      [] part = "trafficExecutiveData" -> BusinessFlow_fetchTrafficExecutiveData(rows[1])

\* BusinessFlowLogic: the chart fetch each section fetch awaits for its chartData
BusinessFlow_chartFetch(part, rows) ==
    CASE part = "ppcServiceData" -> BusinessFlow_fetchPPCServiceChartData(rows)
      [] part = "firstDepositorData" -> BusinessFlow_fetchFirstDepositorChartData(rows)
      [] part = "oldMemberData" -> BusinessFlow_fetchOldMemberChartData(rows)
      [] part = "trafficExecutiveData" -> BusinessFlow_fetchTrafficExecutiveChartData(rows)

\* BusinessFlowLogic: the default each section fetch returns from its catch block
BusinessFlow_getDefault(part) ==
    CASE part = "ppcServiceData" -> BusinessFlow_getDefaultPPCServiceData
      [] part = "firstDepositorData" -> BusinessFlow_getDefaultFirstDepositorData
      [] part = "oldMemberData" -> BusinessFlow_getDefaultOldMemberData
      [] part = "trafficExecutiveData" -> BusinessFlow_getDefaultTrafficExecutiveData

\* BusinessFlowLogic: the default each chart fetch returns from its catch block
BusinessFlow_getDefaultChart(part) ==
    CASE part = "ppcServiceData" -> BusinessFlow_getDefaultPPCServiceChartData
      [] part = "firstDepositorData" -> BusinessFlow_getDefaultFirstDepositorChartData
      [] part = "oldMemberData" -> BusinessFlow_getDefaultOldMemberChartData
      [] part = "trafficExecutiveData" -> BusinessFlow_getDefaultTrafficExecutiveChartData

\* BusinessFlowLogic: how each chart of a section's chartData buckets its rows
BusinessFlow_kind(part, chart) ==
    CASE part = "ppcServiceData" -> "month"
      [] part = "firstDepositorData" -> (IF chart = "depositRateTrend" THEN "month" ELSE "derived")
      [] part = "oldMemberData" -> "tier"
      [] part = "trafficExecutiveData" -> (IF chart = "transferSuccessRate" THEN "derived" ELSE "tier")

----------------------------------------------------------------------------
(* postgresql.js: the pool and executeQuery *)

\* new Pool({ max: 20 })
PoolMax == 20

\* the table list of testDatabaseTables
Tables ==
    << "transactions", "customer_analytics", "business_metrics",
       "operational_metrics", "ppc_service_metrics", "first_depositor_metrics",
       "old_member_metrics", "traffic_executive_metrics", "strategic_metrics",
       "ggr_metrics", "ggr_pure_metrics", "customer_value_metrics",
       "customer_headcount_metrics", "customer_volume_dept_metrics" >>

TableSet == { Tables[i] : i \in 1..Len(Tables) }

\* the tables the direct callers of the model read
DirectTables == { Tables[1], Tables[2] }

\* slot 0 is the caller testDatabaseTables, the others are direct callers
Clients == 1..MaxClients
HealthClient == 0
Slots == Clients \cup {HealthClient}

\* pool.connect() resolves with a client when the server is reachable and a
\* client is free; otherwise it rejects (connection refused, or no client
\* within connectionTimeoutMillis)
CanConnect == dbUp /\ checkedOut < PoolMax

\* client.query resolves when the server is up and the table the text reads exists
QuerySucceeds(t) == dbUp /\ t \in existing

\* what executeQuery does with the client after client.query rejected:
\* the variant with client.release() in a finally block
ReleaseOnFailure_finally(n) == n - 1

\* what executeQuery does with the client after client.query rejected: line 296
\* (client.release()) is skipped, control goes to the catch block, the client
\* stays checked out
ReleaseOnFailure(n) == n

NoAttempts == [connects |-> 0, queries |-> 0, raised |-> "none", thrown |-> "none"]

\* the error pool.connect() rejects with
ConnectError ==
    IF dbUp THEN "timeout exceeded when trying to connect" ELSE "connect ECONNREFUSED"

\* the error client.query rejects with
QueryError(t) ==
    IF dbUp THEN "relation " \o t \o " does not exist"
    ELSE "Connection terminated unexpectedly"

\* the variant of the catch block that throws a new error of its own
OnExecuteError_wrapped(error) == "Query execution failed"

\* the catch block of executeQuery: three console.error lines, throw error
OnExecuteError(error) == error

\* executeQuery(query, params) is called: enters try, awaits pool.connect()
ExecuteQuery(c, t) ==
    /\ xpc[c] \in {"idle", "returned", "thrown"}
    /\ xpc' = [xpc EXCEPT ![c] = "connect"]
    /\ xtable' = [xtable EXCEPT ![c] = t]
    /\ xlog' = [xlog EXCEPT ![c] = NoAttempts]
    /\ UNCHANGED <<dbUp, existing, checkedOut>>

\* const client = await pool.connect()
PoolConnect(c) ==
    /\ xpc[c] = "connect"
    /\ IF CanConnect
         THEN /\ checkedOut' = checkedOut + 1
              /\ xpc' = [xpc EXCEPT ![c] = "query"]
              /\ xlog' = [xlog EXCEPT ![c].connects = @ + 1]
         ELSE /\ checkedOut' = checkedOut
              /\ xpc' = [xpc EXCEPT ![c] = "thrown"]
              /\ xlog' = [xlog EXCEPT ![c].connects = @ + 1,
                                      ![c].raised = ConnectError,
                                      ![c].thrown = OnExecuteError(ConnectError)]
    /\ UNCHANGED <<dbUp, existing, xtable>>

\* const result = await client.query(query, params); client.release(); return
\* result  -- or the catch block: log and throw error
ClientQuery(c) ==
    /\ xpc[c] = "query"
    /\ IF QuerySucceeds(xtable[c])
         THEN /\ checkedOut' = checkedOut - 1
              /\ xpc' = [xpc EXCEPT ![c] = "returned"]
              /\ xlog' = [xlog EXCEPT ![c].queries = @ + 1]
         ELSE /\ checkedOut' = ReleaseOnFailure(checkedOut)
              /\ xpc' = [xpc EXCEPT ![c] = "thrown"]
              /\ xlog' = [xlog EXCEPT ![c].queries = @ + 1,
                                      ![c].raised = QueryError(xtable[c]),
                                      ![c].thrown = OnExecuteError(QueryError(xtable[c]))]
    /\ UNCHANGED <<dbUp, existing, xtable>>

\* a direct caller (getDatabaseStats, initializeDatabaseTables, Database.executeQuery)
DirectCall(c, t) ==
    /\ ncalls < MaxCalls
    /\ ExecuteQuery(c, t)
    /\ ncalls' = ncalls + 1
    /\ UNCHANGED <<healthVars, fetchVars, facadeVars, otherVars, now>>

DirectConnect(c) == PoolConnect(c) /\ UNCHANGED <<ncalls, healthVars, fetchVars, facadeVars, otherVars, now>>

DirectQuery(c) == ClientQuery(c) /\ UNCHANGED <<ncalls, healthVars, fetchVars, facadeVars, otherVars, now>>

----------------------------------------------------------------------------
(* the wall clock *)

Tick ==
    /\ now < MaxTime
    /\ now' = now + 1
    /\ UNCHANGED <<poolVars, healthVars, fetchVars, facadeVars, otherVars>>

----------------------------------------------------------------------------
(* index.js getSystemHealth, postgresql.js checkDatabaseConnection and      *)
(* testDatabaseTables                                                       *)

NoResults == [t \in TableSet |-> FALSE]
NoHealth == [database |-> "none", tables |-> "none", logic |-> "none", timestamp |-> 0]

\* getSystemHealth() is called
GetSystemHealth ==
    /\ hpc \in {"idle", "done"}
    /\ nhealth < MaxHealthChecks
    /\ nhealth' = nhealth + 1
    /\ hpc' = "probe"
    /\ hresults' = NoResults
    /\ UNCHANGED <<hconn, hidx, health, poolVars, fetchVars, facadeVars, otherVars, now>>

\* the object getSystemHealth returns from its own catch block
HealthCatch(ts) ==
    [ database |-> "unhealthy", tables |-> "unhealthy", logic |-> "unhealthy",
      timestamp |-> ts ]

\* the variant of checkDatabaseConnection whose catch block rethrows
OnProbeError_rethrow == [st |-> "rejected"]

\* the catch block of checkDatabaseConnection: log, return false
OnProbeError == [st |-> "fulfilled", val |-> FALSE]

\* await Database.checkConnection(): connect, SELECT NOW(), release, true; a
\* rejection inside goes through its catch block; had the await itself
\* rejected, the catch block of getSystemHealth would return HealthCatch
CheckDatabaseConnection ==
    /\ hpc = "probe"
    /\ LET probe == IF CanConnect THEN [st |-> "fulfilled", val |-> TRUE] ELSE OnProbeError
       IN  IF probe.st = "rejected"
             THEN /\ health' = HealthCatch(now)
                  /\ hpc' = "done"
                  /\ UNCHANGED <<hconn, hidx>>
             ELSE /\ hconn' = probe.val
                  /\ hidx' = 1
                  /\ hpc' = "tables"
                  /\ UNCHANGED health
    /\ UNCHANGED <<hresults, nhealth, poolVars, fetchVars, facadeVars, otherVars, now>>

\* testDatabaseTables: executeQuery(`SELECT COUNT(*) FROM ${table}`) for the
\* next table of the list
TestTableCall ==
    /\ hpc = "tables"
    /\ hidx <= Len(Tables)
    /\ xpc[HealthClient] = "idle"
    /\ ExecuteQuery(HealthClient, Tables[hidx])
    /\ UNCHANGED <<ncalls, healthVars, fetchVars, facadeVars, otherVars, now>>

TestTableConnect ==
    /\ hpc = "tables"
    /\ PoolConnect(HealthClient)
    /\ UNCHANGED <<ncalls, healthVars, fetchVars, facadeVars, otherVars, now>>

TestTableQuery ==
    /\ hpc = "tables"
    /\ ClientQuery(HealthClient)
    /\ UNCHANGED <<ncalls, healthVars, fetchVars, facadeVars, otherVars, now>>

\* results[table] = { exists: true, ... } after a result, { exists: false, ... }
\* in the catch block; then the next table
TestTableRecord ==
    /\ hpc = "tables"
    /\ xpc[HealthClient] \in {"returned", "thrown"}
    /\ hresults' = [hresults EXCEPT ![Tables[hidx]] = (xpc[HealthClient] = "returned")]
    /\ hidx' = hidx + 1
    /\ xpc' = [xpc EXCEPT ![HealthClient] = "idle"]
    /\ UNCHANGED <<hpc, hconn, health, nhealth, dbUp, existing, checkedOut,
                   xtable, ncalls, xlog, fetchVars, facadeVars, otherVars, now>>

\* the tables field of healthStatus
TablesStatus(results) ==
    IF \A t \in TableSet : results[t] THEN "healthy" ELSE "partial"

\* the healthStatus object built after both awaits
HealthStatus(conn, results, ts) ==
    [ database |-> IF conn THEN "healthy" ELSE "unhealthy",
      tables |-> TablesStatus(results),
      logic |-> "healthy",
      timestamp |-> ts ]

\* return healthStatus
HealthReturn ==
    /\ hpc = "tables"
    /\ hidx > Len(Tables)
    /\ health' = HealthStatus(hconn, hresults, now)
    /\ hpc' = "done"
    /\ UNCHANGED <<hconn, hidx, hresults, nhealth, poolVars, fetchVars, facadeVars, otherVars, now>>

----------------------------------------------------------------------------
(* the seven logic classes behind one interface *)

\* the modules, in the order initializeAllDashboards fetches them
Modules == <<"overview", "businessFlow", "strategicExecutive", "bgo", "sr", "xoo", "os">>

ModuleSet == { Modules[i] : i \in 1..Len(Modules) }

\* the chart sub-fetches a module awaits with Promise.all
ChartParts(m) ==
    CASE m = "overview" -> { "retentionChurnData", "clvFrequencyData",
                             "growthProfitabilityData", "operationalEfficiencyData" }
      [] m = "businessFlow" -> {}
      [] m = "strategicExecutive" -> { "ggrUserTrend", "ggrPureUserTrend", "customerValueTrend",
                                       "customerCountTrend", "customerVolumeDept" }
      [] m = "bgo" -> { "revenueByGame", "playerActivityTrend", "betSizeDistribution",
                        "winLossRatio" }
      [] m = "sr" -> { "sportsBetting", "racingBetting", "popularSports",
                       "betTypeDistribution", "monthlyTrends" }
      [] m = "xoo" -> { "revenueByService", "customerSegmentation", "transactionVolume",
                        "profitMargins", "monthlyPerformance" }
      [] m = "os" -> { "systemPerformance", "userActivity", "resourceUtilization",
                       "errorAnalysis", "monthlyTrends" }

\* the four section fetches fetchBusinessFlowData awaits
Sections == { "ppcServiceData", "firstDepositorData", "oldMemberData", "trafficExecutiveData" }

\* every promise a module's entry point waits for
Parts(m) == IF m = "businessFlow" THEN Sections ELSE {"kpiData"} \cup ChartParts(m)

\* what the try block of a sub-fetch returns for the rows of its query
SubFetchBuilt(m, part, rows, currency) ==
    CASE m = "overview" -> Overview_subFetch(part, rows, currency)
      [] m = "businessFlow" -> BusinessFlow_subFetch(part, rows, currency)
      [] m = "strategicExecutive" -> StrategicExecutive_subFetch(part, rows, currency)
      [] m = "bgo" -> BGO_subFetch(part, rows, currency)
      [] m = "sr" -> SR_subFetch(part, rows, currency)
      [] m = "xoo" -> XOO_subFetch(part, rows, currency)
      [] m = "os" -> OS_subFetch(part, rows, currency)

\* the variant of GetDefault that builds the default from an empty result
\* instead of returning the hardcoded literal
GetDefault_fromNoRows(m, part) ==
    SubFetchBuilt(m, part, <<[month |-> 0, tier |-> "", label |-> "", value |-> Null]>>, "MYR")

\* what the catch block of a sub-fetch returns
GetDefault(m, part) ==
    CASE m = "overview" -> Overview_getDefault(part)
      [] m = "businessFlow" -> BusinessFlow_getDefault(part)
      [] m = "strategicExecutive" -> StrategicExecutive_getDefault(part)
      [] m = "bgo" -> BGO_getDefault(part)
      [] m = "sr" -> SR_getDefault(part)
      [] m = "xoo" -> XOO_getDefault(part)
      [] m = "os" -> OS_getDefault(part)

\* getDefaultChartData() of the modules that have a fetchChartData
GetDefaultChartData(m) ==
    CASE m = "strategicExecutive" -> StrategicExecutive_getDefaultChartData
      [] m = "bgo" -> BGO_getDefaultChartData
      [] m = "sr" -> SR_getDefaultChartData
      [] m = "xoo" -> XOO_getDefaultChartData
      [] m = "os" -> OS_getDefaultChartData

\* how a sub-fetch reads its result: one aggregate row ("kpi", "aggregate")
\* or grouped rows ("month", "category")
Kind(m, part) ==
    CASE m = "overview" -> Overview_kind(part)
      [] m = "businessFlow" -> "kpi"
      [] m = "strategicExecutive" -> StrategicExecutive_kind(part)
      [] m = "bgo" -> BGO_kind(part)
      [] m = "sr" -> SR_kind(part)
      [] m = "xoo" -> XOO_kind(part)
      [] m = "os" -> OS_kind(part)

----------------------------------------------------------------------------
(* promises and query results *)

Pending == [st |-> "pending"]
Fulfilled(v) == [st |-> "fulfilled", val |-> v]
Rejected == [st |-> "rejected"]

Settled(p) == p.st \in {"fulfilled", "rejected"}

\* the variant of a catch block that rethrows the error
OnQueryError_rethrow(default) == Rejected

\* the catch block of a sub-fetch: console.error(...); return this.getDefault...()
OnQueryError(default) == Fulfilled(default)

\* pool.query rejected
QueryFailed == [ok |-> FALSE, rows |-> <<>>]

\* pool.query resolved with result.rows = rows
QueryRows(rows) == [ok |-> TRUE, rows |-> rows]

\* the grouped rows the model's database holds for a filter: row i of a result
SampleMonth(i) == ((5 * i + 1) % 12) + 1

SampleTier(i) ==
    LET names == <<"Gold", "Diamond", "Legend", "Bronze", "Silver", "Platinum">>
    IN  names[((i - 1) % Len(names)) + 1]

SampleValue(i) == IF i % 2 = 1 THEN Num(50000 * i) ELSE Null

SampleRow(i) ==
    [month |-> SampleMonth(i), tier |-> SampleTier(i),
     label |-> "group " \o ToString(i), value |-> SampleValue(i)]

\* the single row of an aggregate query without GROUP BY
AggregateRow(v) == [month |-> 0, tier |-> "", label |-> "", value |-> v]

\* what SUM / AVG / COUNT over the filtered rows can be: null (no row matched)
\* or a number
AggregateValues == { Null, Num(1000000) }

AggregateResults == {QueryFailed} \cup { QueryRows(<<AggregateRow(v)>>) : v \in AggregateValues }

GroupedResults == {QueryFailed} \cup { QueryRows([i \in 1..k |-> SampleRow(i)]) : k \in 0..MaxRows }

Results(kind) == IF kind \in {"kpi", "aggregate"} THEN AggregateResults ELSE GroupedResults

\* the (currency, year, month) filters the callers of the model pass
Filters == { <<"MYR", "2025", "July">>, <<"USD", "2024", "January">> }

----------------------------------------------------------------------------
(* a module fetch: fetchOverviewData, fetchBusinessFlowData,               *)
(* fetchStrategicExecutiveData, fetchBGOData, fetchSRData, fetchXOOData,    *)
(* fetchOSData                                                              *)

NoReport == [none |-> TRUE]

\* the query of a section's chart fetch, as named in qres
ChartQuery(part) == part \o ".chartData"

\* a sub-fetch: try { rows = await pool.query(...); return built } catch { return default }
SubFetch(m, part, result, currency) ==
    IF result.ok
      THEN Fulfilled(SubFetchBuilt(m, part, result.rows, currency))
      ELSE OnQueryError(GetDefault(m, part))

\* the variant in which every section fetch of business flow starts its
\* chart fetch before it awaits its own query
FirstQueries_eager(m) ==
    IF m = "businessFlow" THEN Sections \cup { ChartQuery(p) : p \in Sections }
    ELSE Parts(m)

\* the queries handed to pool.query before the entry point first yields:
\* each sub-fetch of its Promise.all (and of fetchChartData's) runs up to its
\* await pool.query(...)
FirstQueries(m) == Parts(m)

\* the queries a fetch of module m can issue
AllQueries(m) ==
    IF m = "businessFlow" THEN Sections \cup { ChartQuery(p) : p \in Sections }
    ELSE Parts(m)

\* the entry point is called: every sub-fetch of its Promise.all starts
FetchData(m, filter) ==
    /\ fpc \in {"idle", "returned", "thrown"}
    /\ fpc' = "running"
    /\ fmod' = m
    /\ farg' = filter
    /\ fpart' = [p \in Parts(m) |-> Pending]
    /\ qres' = <<>>
    /\ qissued' = FirstQueries(m)
    /\ report' = NoReport
    /\ UNCHANGED <<poolVars, healthVars, facadeVars, otherVars, now>>

\* the variant in which the values of Promise.all come in the order in which
\* the promises settle: a value goes to a slot that is still open
Destructure_settleOrder(parts, part, value) ==
    LET open == { p \in DOMAIN parts : parts[p].st \in {"pending", "chart"} }
        slot == IF value.st = "chart" THEN part ELSE CHOOSE p \in open : TRUE
    IN  [parts EXCEPT ![slot] = value]

\* const [a, b, ...] = await Promise.all([fetchA(), fetchB(), ...]): the
\* value of each sub-fetch is bound to the name at its own position
Destructure(parts, part, value) == [parts EXCEPT ![part] = value]

\* the query of a sub-fetch settles (every module but business flow)
SubFetchSettle(part, result) ==
    /\ fpc = "running"
    /\ fmod # "businessFlow"
    /\ part \in Parts(fmod)
    /\ fpart[part].st = "pending"
    /\ result \in Results(Kind(fmod, part))
    /\ fpart' = Destructure(fpart, part, SubFetch(fmod, part, result, farg[1]))
    /\ qres' = (part :> result) @@ qres
    /\ UNCHANGED <<fpc, fmod, farg, qissued, report, poolVars, healthVars, facadeVars, otherVars, now>>

\* business flow: the KPI query of a section fetch settles; on rows the KPI
\* list is built and the section goes on to await its chart fetch, on an
\* error the catch block returns the section's default
SectionSettle(part, result) ==
    /\ fpc = "running"
    /\ fmod = "businessFlow"
    /\ part \in Sections
    /\ fpart[part].st = "pending"
    /\ result \in AggregateResults
    /\ fpart' = Destructure(fpart, part,
                   IF result.ok
                     THEN [st |-> "chart",
                           kpiData |-> SubFetchBuilt(fmod, part, result.rows, farg[1])]
                     ELSE OnQueryError(GetDefault(fmod, part)))
    /\ qres' = (part :> result) @@ qres
    /\ qissued' = IF result.ok THEN qissued \cup {ChartQuery(part)} ELSE qissued
    /\ UNCHANGED <<fpc, fmod, farg, report, poolVars, healthVars, facadeVars, otherVars, now>>

\* a chart fetch of business flow: try { build from rows } catch { default }
ChartFetch(part, result) ==
    IF result.ok
      THEN Fulfilled(BusinessFlow_chartFetch(part, result.rows))
      ELSE OnQueryError(BusinessFlow_getDefaultChart(part))

\* business flow: the query of the chart fetch a section awaits settles and
\* the section returns { kpiData, chartData }
SectionChartSettle(part, result) ==
    /\ fpc = "running"
    /\ fmod = "businessFlow"
    /\ part \in Sections
    /\ fpart[part].st = "chart"
    /\ result \in GroupedResults
    /\ LET chart == ChartFetch(part, result)
       IN  fpart' = Destructure(fpart, part,
                       IF chart.st = "fulfilled"
                         THEN Fulfilled([kpiData |-> fpart[part].kpiData,
                                         chartData |-> chart.val])
                         ELSE OnQueryError(GetDefault(fmod, part)))
    /\ qres' = (ChartQuery(part) :> result) @@ qres
    /\ UNCHANGED <<fpc, fmod, farg, qissued, report, poolVars, healthVars, facadeVars, otherVars, now>>

\* the variant of fetchChartData that answers with the defaults whatever the
\* sub-fetches returned
FetchChartData_defaults(m, parts) == GetDefaultChartData(m)

\* fetchChartData: Promise.all of the chart sub-fetches, the defaults if one rejects
FetchChartData(m, parts) ==
    IF \E p \in ChartParts(m) : parts[p].st = "rejected"
      THEN GetDefaultChartData(m)
      ELSE [p \in ChartParts(m) |-> parts[p].val]

\* the promises the entry point's own Promise.all waits for
Awaited(m) == IF m \in {"overview", "businessFlow"} THEN Parts(m) ELSE {"kpiData"}

\* the variant that returns the awaited values alone, without a timestamp
Report_noTimestamp(m, parts, ts) == [p \in Parts(m) |-> parts[p].val]

\* the object the entry point returns
Report(m, parts, ts) ==
    IF m \in {"overview", "businessFlow"}
      THEN [p \in Parts(m) |-> parts[p].val] @@ ("lastUpdate" :> ts)
      ELSE [kpiData |-> parts["kpiData"].val,
            chartData |-> FetchChartData(m, parts),
            lastUpdate |-> ts]

\* every awaited promise has settled: the entry point returns its report, or
\* its catch block rethrows the error of a rejected promise
FetchReturn ==
    /\ fpc = "running"
    /\ \A p \in Parts(fmod) : Settled(fpart[p])
    /\ IF \E p \in Awaited(fmod) : fpart[p].st = "rejected"
         THEN /\ fpc' = "thrown"
              /\ report' = NoReport
         ELSE /\ fpc' = "returned"
              /\ report' = Report(fmod, fpart, now)
    /\ UNCHANGED <<fmod, farg, fpart, qres, qissued, poolVars, healthVars, facadeVars, otherVars, now>>

----------------------------------------------------------------------------
(* index.js: initializeAllDashboards over the Logic registry.  Logic is an  *)
(* exported object whose entries the facade calls as opaque async           *)
(* functions: a module promise fulfils with the module's report or rejects. *)

\* the answers of the model's database to all queries of one module fetch:
\* every query fails, or every query succeeds on a filter that matches no row
UniformResult(kind, answer) ==
    IF answer = "failed" THEN QueryFailed
    ELSE IF kind \in {"kpi", "aggregate"}
      THEN QueryRows(<<AggregateRow(IF answer = "rows" THEN Num(1000000) ELSE Null)>>)
    ELSE IF answer = "rows" THEN QueryRows([i \in 1..MaxRows |-> SampleRow(i)])
    ELSE QueryRows(<<>>)

\* a section fetch of business flow run to completion
SectionFetch(part, answer, currency) ==
    IF answer = "failed"
      THEN OnQueryError(GetDefault("businessFlow", part))
      ELSE Fulfilled([kpiData |-> SubFetchBuilt("businessFlow", part,
                                                UniformResult("kpi", answer).rows,
                                                currency),
                      chartData |-> ChartFetch(part, UniformResult("month", answer)).val])

\* the variant that answers from the queries only until the clock first
\* ticks and from the defaults afterwards
ModuleReport_expiring(m, filter, answer, ts) ==
    LET used == IF ts = 0 THEN answer ELSE "failed"
        parts == [p \in Parts(m) |->
                    IF m = "businessFlow"
                      THEN SectionFetch(p, used, filter[1])
                      ELSE SubFetch(m, p, UniformResult(Kind(m, p), used), filter[1])]
    IN  Report(m, parts, ts)

\* a module fetch run to completion: the report its entry point returns
ModuleReport(m, filter, answer, ts) ==
    LET parts == [p \in Parts(m) |->
                    IF m = "businessFlow"
                      THEN SectionFetch(p, answer, filter[1])
                      ELSE SubFetch(m, p, UniformResult(Kind(m, p), answer), filter[1])]
    IN  Report(m, parts, ts)

\* the variant that calls every module with the default arguments
ModuleArgs_defaults(m, currency, year, month) == <<"MYR", "2025", "July">>

\* the arguments of Logic.<m>.fetch...Data(currency, year, month)
ModuleArgs(m, currency, year, month) == <<currency, year, month>>

\* initializeAllDashboards(currency, year, month) is called: the seven
\* fetches of its Promise.all start
InitializeAllDashboards(filter) ==
    /\ apc \in {"idle", "returned", "thrown"}
    /\ apc' = "running"
    /\ aarg' = filter
    /\ acall' = [m \in ModuleSet |-> ModuleArgs(m, filter[1], filter[2], filter[3])]
    /\ aprom' = [m \in ModuleSet |-> Pending]
    /\ aerr' = "none"
    /\ dash' = NoReport
    /\ gens' = IF apc = "returned" THEN gens \cup {dash.meta.generatedAt} ELSE gens
    /\ UNCHANGED <<poolVars, healthVars, fetchVars, otherVars, now>>

\* the promise of one module settles; after the first rejection the await of
\* Promise.all is over and no later settlement is observed
ModuleSettle(m, outcome) ==
    /\ apc = "running"
    /\ aerr = "none"
    /\ aprom[m].st = "pending"
    /\ outcome \in {"failed", "empty", "rejected"}
    /\ aprom' = [aprom EXCEPT ![m] =
                   IF outcome = "rejected" THEN Rejected
                   ELSE Fulfilled(ModuleReport(m, acall[m], outcome, now))]
    /\ aerr' = IF outcome = "rejected" /\ aerr = "none" THEN m ELSE aerr
    /\ UNCHANGED <<apc, aarg, acall, dash, gens, poolVars, healthVars, fetchVars, otherVars, now>>

\* the variant of Promise.all that fulfils with whatever reports have arrived
\* once a promise has rejected
PromiseAll_partial(proms, err) ==
    IF err # "none" \/ \A m \in DOMAIN proms : Settled(proms[m])
      THEN Fulfilled([m \in DOMAIN proms |->
                        IF proms[m].st = "fulfilled" THEN proms[m].val ELSE NoReport])
      ELSE Pending

\* await Promise.all([...]): rejects with the first rejection, fulfils with
\* all the values once every promise has fulfilled
PromiseAll(proms, err) ==
    IF err # "none" THEN Rejected
    ELSE IF \A m \in DOMAIN proms : proms[m].st = "fulfilled"
      THEN Fulfilled([m \in DOMAIN proms |-> proms[m].val])
    ELSE Pending

\* the variant whose generatedAt is the time left until MaxTime
Dashboards_timeLeft(reports, filter, ts) ==
    reports
      @@ ("meta" :> [currency |-> filter[1], year |-> filter[2], month |-> filter[3],
                     generatedAt |-> MaxTime - ts, version |-> "1.0.0"])

\* the combined object of the return statement
Dashboards(reports, filter, ts) ==
    reports
      @@ ("meta" :> [currency |-> filter[1], year |-> filter[2], month |-> filter[3],
                     generatedAt |-> ts, version |-> "1.0.0"])

\* the await of Promise.all is over: with all seven reports the combined
\* object is returned; on a rejection the catch block rethrows the error
InitializeReturn(t) ==
    /\ apc = "running"
    /\ t \in now..MaxTime
    /\ LET all == PromiseAll(aprom, aerr)
       IN  /\ all.st # "pending"
           /\ IF all.st = "rejected"
                THEN /\ apc' = "thrown"
                     /\ dash' = NoReport
                     /\ now' = now
                ELSE /\ apc' = "returned"
                     /\ dash' = Dashboards(all.val, aarg, t)
                     /\ now' = t
    /\ UNCHANGED <<aarg, acall, aprom, aerr, gens, poolVars, healthVars, fetchVars, otherVars>>

----------------------------------------------------------------------------
(* index.js setupDatabase, postgresql.js initializeDatabaseTables, and the   *)
(* tables the queries of the seven logic modules read                        *)

\* the tables named in the FROM clauses of each logic class
Overview_tables ==
    {"transactions", "customer_analytics", "business_metrics", "operational_metrics"}

BusinessFlow_tables ==
    {"ppc_service_metrics", "first_depositor_metrics", "old_member_metrics",
     "traffic_executive_metrics"}

StrategicExecutive_tables ==
    {"strategic_metrics", "ggr_metrics", "ggr_pure_metrics", "customer_value_metrics",
     "customer_headcount_metrics", "customer_volume_dept_metrics"}

BGO_tables == {"bgo_metrics", "bgo_game_metrics", "bgo_bet_details", "bgo_game_results"}

SR_tables ==
    {"sr_metrics", "sr_sports_metrics", "sr_racing_metrics", "sr_popular_sports",
     "sr_bet_types"}

XOO_tables ==
    {"xoo_metrics", "xoo_service_metrics", "xoo_customer_segments", "xoo_transactions",
     "xoo_profit_analysis"}

OS_tables ==
    {"os_metrics", "os_system_performance", "os_user_activity",
     "os_resource_utilization", "os_error_logs"}

QueriedTables(m) ==
    CASE m = "overview" -> Overview_tables
      [] m = "businessFlow" -> BusinessFlow_tables
      [] m = "strategicExecutive" -> StrategicExecutive_tables
      [] m = "bgo" -> BGO_tables
      [] m = "sr" -> SR_tables
      [] m = "xoo" -> XOO_tables
      [] m = "os" -> OS_tables

\* every table the database can hold
AllTables == TableSet \cup UNION { QueriedTables(m) : m \in ModuleSet }

\* the databases setupDatabase is run against: an empty one, one that holds
\* the first table only, and one that was provisioned with every table
SetupStores == {{}, {Tables[1]}, AllTables}

\* setupDatabase has not returned
NoResult == [k |-> "pending"]

\* the variant of createTablesQueries that also creates the tables of the
\* bgo, sr, xoo and os modules
CreateTablesQueries_all(i) ==
    IF i < Len(Tables) THEN {Tables[i]}
    ELSE {Tables[i]} \cup BGO_tables \cup SR_tables \cup XOO_tables \cup OS_tables

\* the tables createTablesQueries[i] creates: CREATE TABLE IF NOT EXISTS <table>
CreateTablesQueries(i) == {Tables[i]}

SetupFrame ==
    UNCHANGED <<dbUp, xpc, xtable, ncalls, xlog, healthVars, fetchVars, facadeVars, now,
                storeVars, utilVars, repeatVars, moreVars>>

\* setupDatabase() is called: Database.initializeTables() starts its loop
SetupDatabase ==
    /\ spc \in {"idle", "returned"}
    /\ spc' = "running"
    /\ sidx' = 1
    /\ sret' = NoResult
    /\ UNCHANGED <<existing, checkedOut>>
    /\ SetupFrame

\* await executeQuery(query) for the next query of the loop; a failed connect
\* or a failed statement is rethrown by executeQuery, caught by
\* initializeDatabaseTables, which returns false, and setupDatabase returns
\* that result
CreateTable(accepted) ==
    /\ spc = "running"
    /\ sidx <= Len(Tables)
    /\ IF ~CanConnect
         THEN /\ spc' = "returned"
              /\ sret' = Returned(FALSE)
              /\ UNCHANGED <<existing, checkedOut, sidx>>
         ELSE IF accepted
           THEN /\ existing' = existing \cup CreateTablesQueries(sidx)
                /\ sidx' = sidx + 1
                /\ UNCHANGED <<checkedOut, spc, sret>>
           ELSE /\ checkedOut' = ReleaseOnFailure(checkedOut + 1)
                /\ spc' = "returned"
                /\ sret' = Returned(FALSE)
                /\ UNCHANGED <<existing, sidx>>
    /\ SetupFrame

\* the loop is over: initializeDatabaseTables returns true and setupDatabase
\* returns that result
SetupReturn ==
    /\ spc = "running"
    /\ sidx > Len(Tables)
    /\ spc' = "returned"
    /\ sret' = Returned(TRUE)
    /\ UNCHANGED <<existing, checkedOut, sidx>>
    /\ SetupFrame

----------------------------------------------------------------------------
(* database-reader.js and the logic classes: the SQL text and the parameter *)
(* list each function hands to pool.query                                   *)

\* the functions that take caller-supplied values into a query
DbFunctions ==
    {"getTableStructure", "getTableSample", "getTableCount", "tableExists",
     "OverviewLogic.fetchKPIData"}

\* the table names a caller passes
TableNames == {"transactions", "users", "users; DROP TABLE transactions"}

\* the sample sizes a caller passes
SampleLimits == {3, 5}

NoQuery == [fn |-> "none"]

\* pool.query(text, params) called by function fn with arguments args
Sent(fn, args, text, params) ==
    /\ qsent' = [fn |-> fn, args |-> args, text |-> text, params |-> params]
    /\ qtexts' = [qtexts EXCEPT ![fn] = @ \cup {text}]
    /\ UNCHANGED <<baseVars, concVars, loadVars>>

\* getTableSample: `SELECT * FROM ${tableName} LIMIT $1`
GetTableSampleText(tableName) == "SELECT * FROM " \o tableName \o " LIMIT $1"

\* getTableCount: `SELECT COUNT(*) as count FROM ${tableName}`
GetTableCountText(tableName) == "SELECT COUNT(*) as count FROM " \o tableName

\* getTableStructure(tableName)
GetTableStructure(tableName) ==
    Sent("getTableStructure", <<tableName>>,
         "SELECT column_name, ... FROM information_schema.columns WHERE table_schema = 'public' AND table_name = $1 ORDER BY ordinal_position",
         <<tableName>>)

\* tableExists(tableName)
TableExists(tableName) ==
    Sent("tableExists", <<tableName>>,
         "SELECT EXISTS (SELECT FROM information_schema.tables WHERE table_schema = 'public' AND table_name = $1)",
         <<tableName>>)

\* getTableSample(tableName, limit)
GetTableSample(tableName, limit) ==
    Sent("getTableSample", <<tableName, limit>>, GetTableSampleText(tableName), <<limit>>)

\* getTableCount(tableName)
GetTableCount(tableName) ==
    Sent("getTableCount", <<tableName>>, GetTableCountText(tableName), <<>>)

\* OverviewLogic.fetchKPIData(currency, year, month): the first query
OverviewKPISent(filter) ==
    Sent("OverviewLogic.fetchKPIData", filter,
         "SELECT SUM(deposit_amount) ... FROM transactions WHERE currency = $1 AND EXTRACT(YEAR FROM transaction_date) = $2 AND EXTRACT(MONTH FROM transaction_date) = $3",
         filter)

----------------------------------------------------------------------------
(* two calls of one entry point of a shared Logic instance, interleaved at  *)
(* their awaits                                                             *)

Callers == {"first", "second"}

\* constructor(): this.currency = 'MYR'; this.year = '2025'; this.month = 'July'
InstanceFields == <<"MYR", "2025", "July">>

\* the variant in which the sub-fetches read the filter from the fields of
\* the instance
Arguments_instance(args, instance) == instance

\* the filter a sub-fetch works with: its parameters (currency, year, month)
Arguments(args, instance) == args

\* between calls the data changes: queries with the filter are answered
\* with rows, or fail; the calls made so far are forgotten
DataChange(filter, answer) ==
    /\ \A c \in Callers : cpc[c] # "running"
    /\ cstore[filter] # answer
    /\ cstore' = [cstore EXCEPT ![filter] = answer]
    /\ cpc' = [c \in Callers |-> "idle"]
    /\ cmod' = [c \in Callers |-> "overview"]
    /\ carg' = [c \in Callers |-> InstanceFields]
    /\ cpart' = [c \in Callers |-> <<>>]
    /\ creport' = [c \in Callers |-> NoReport]
    /\ UNCHANGED <<baseVars, sqlVars, loadVars>>

\* the entry point of module m is called on the shared instance while the
\* other call, if it is running, runs with a different filter
CallFetch(c, m, filter) ==
    /\ cpc[c] # "running"
    /\ \A d \in Callers \ {c} : cpc[d] = "running" => (m = cmod[d] /\ carg[d] # filter)
    /\ cmod' = [cmod EXCEPT ![c] = m]
    /\ cpc' = [cpc EXCEPT ![c] = "running"]
    /\ carg' = [carg EXCEPT ![c] = filter]
    /\ cpart' = [cpart EXCEPT ![c] = [p \in Parts(m) |-> Pending]]
    /\ creport' = [creport EXCEPT ![c] = NoReport]
    /\ UNCHANGED <<cstore, baseVars, sqlVars, loadVars>>

\* a sub-fetch of call c settles: its queries are answered for the filter it
\* passed and its value is built
CallSettle(c, part) ==
    /\ cpc[c] = "running"
    /\ part \in Parts(cmod[c])
    /\ cpart[c][part].st = "pending"
    /\ LET filter == Arguments(carg[c], InstanceFields)
           value == IF cmod[c] = "businessFlow"
                      THEN SectionFetch(part, cstore[filter], filter[1])
                      ELSE SubFetch(cmod[c], part, UniformResult(Kind(cmod[c], part), cstore[filter]),
                                    filter[1])
       IN  cpart' = [cpart EXCEPT ![c] = Destructure(@, part, value)]
    /\ UNCHANGED <<cstore, cmod, cpc, carg, creport, baseVars, sqlVars, loadVars>>

\* every awaited promise of call c has settled: it returns its report or
\* rethrows
CallReturn(c) ==
    /\ cpc[c] = "running"
    /\ \A p \in Parts(cmod[c]) : Settled(cpart[c][p])
    /\ IF \E p \in Awaited(cmod[c]) : cpart[c][p].st = "rejected"
         THEN /\ cpc' = [cpc EXCEPT ![c] = "thrown"]
              /\ creport' = creport
         ELSE /\ cpc' = [cpc EXCEPT ![c] = "returned"]
              /\ creport' = [creport EXCEPT ![c] = Report(cmod[c], cpart[c], now)]
    /\ UNCHANGED <<cstore, cmod, carg, cpart, baseVars, sqlVars, loadVars>>

----------------------------------------------------------------------------
(* the pool.query calls of one initializeAllDashboards call, counted: every *)
(* call takes a client of the pool, or waits for one when all PoolMax are   *)
(* in use                                                                   *)

RECURSIVE FirstQueryCount(_)
\* the pool.query calls made before the facade's Promise.all first yields:
\* the first queries of the first k modules
FirstQueryCount(k) ==
    IF k = 0 THEN 0 ELSE FirstQueryCount(k - 1) + Cardinality(FirstQueries(Modules[k]))

\* the clients the pool can still hand out
ClientsFree(inUse) == PoolMax - inUse

LoadFrame ==
    UNCHANGED <<dbUp, existing, xpc, xtable, ncalls, xlog, healthVars, fetchVars, facadeVars,
                now, storeVars, utilVars, repeatVars, setupVars, sqlVars, concVars>>

\* initializeAllDashboards is called on an idle pool: the seven entry points
\* run up to their first await, so every first query is handed to pool.query;
\* the pool gives a client to as many as it has and queues the others (the
\* four section queries of business flow, the second module, get a client)
LoadCall ==
    /\ lpc \in {"idle", "returned"}
    /\ checkedOut = 0
    /\ lpc' = "running"
    /\ LET issued == FirstQueryCount(Len(Modules))
           served == IF issued <= ClientsFree(checkedOut) THEN issued
                     ELSE ClientsFree(checkedOut)
       IN  /\ checkedOut' = checkedOut + served
           /\ lwait' = issued - served
    /\ lsections' = Cardinality(Sections)
    /\ LoadFrame

\* a query other than a section query of business flow is answered (rows or
\* an error): its client goes back to the pool, which hands it to a waiting
\* call if there is one
QueryAnswered ==
    /\ lpc = "running"
    /\ checkedOut - lsections > 0
    /\ IF lwait > 0
         THEN /\ lwait' = lwait - 1
              /\ UNCHANGED checkedOut
         ELSE /\ checkedOut' = checkedOut - 1
              /\ UNCHANGED lwait
    /\ UNCHANGED <<lpc, lsections>>
    /\ LoadFrame

\* a section query of business flow is answered; with rows the section goes
\* on to its chart fetch, which hands one more query to pool.query
SectionQueryAnswered(ok) ==
    /\ lpc = "running"
    /\ lsections > 0
    /\ lsections' = lsections - 1
    /\ IF ok
         THEN UNCHANGED <<checkedOut, lwait>>
         ELSE IF lwait > 0
           THEN /\ lwait' = lwait - 1
                /\ UNCHANGED checkedOut
           ELSE /\ checkedOut' = checkedOut - 1
                /\ UNCHANGED lwait
    /\ UNCHANGED lpc
    /\ LoadFrame

\* connectionTimeoutMillis passes for a waiting call: pool.query rejects and
\* the sub-fetch returns its default
WaitTimeout ==
    /\ lpc = "running"
    /\ lwait > 0
    /\ lwait' = lwait - 1
    /\ UNCHANGED <<lpc, lsections, checkedOut>>
    /\ LoadFrame

\* every query is answered: initializeAllDashboards returns
LoadReturn ==
    /\ lpc = "running"
    /\ checkedOut = 0 /\ lwait = 0 /\ lsections = 0
    /\ lpc' = "returned"
    /\ UNCHANGED <<lsections, lwait, checkedOut>>
    /\ LoadFrame

----------------------------------------------------------------------------
(* the transactions table and the KPI query of the overview *)

\* the rows the table can hold: deposits by currency and transaction_date
Deposits ==
    [ currency : {"MYR", "USD"}, year : {2024, 2025}, month : {6, 7},
      deposit_amount : {1000000, 25050} ]

\* the numbers a parameter text can spell: months and years
Numerals == (1..12) \cup {2024, 2025}

\* the text spells a number
IsNumeric(text) == \E n \in Numerals : ToString(n) = text

\* the server's conversion of a numeral bound to a numeric comparison
ParseNumeric(text) == CHOOSE n \in Numerals : ToString(n) = text

RECURSIVE SumDeposits(_)
SumDeposits(rows) ==
    IF rows = {} THEN 0
    ELSE LET r == CHOOSE x \in rows : TRUE
         IN  r.deposit_amount + SumDeposits(rows \ {r})

\* pool.query(query, [currency, year, month]) of OverviewLogic.fetchKPIData:
\* the server rejects the query (invalid input syntax) when the text bound to
\* a numeric comparison, EXTRACT(...) = $n, is not a numeral; otherwise
\* SUM(deposit_amount) FROM transactions WHERE currency = $1 AND
\* EXTRACT(YEAR FROM transaction_date) = $2 AND EXTRACT(MONTH FROM
\* transaction_date) = $3; one row, with null when no row matches
OverviewKPIQuery(rows, currency, year, month) ==
    IF ~IsNumeric(year) \/ ~IsNumeric(month)
      THEN QueryFailed
      ELSE LET matching == { r \in rows : /\ r.currency = currency
                                          /\ r.year = ParseNumeric(year)
                                          /\ r.month = ParseNumeric(month) }
           IN  QueryRows(<<AggregateRow(IF matching = {} THEN Null
                                        ELSE Num(SumDeposits(matching)))>>)

\* the filters the overview is called with: month by name and by number
StoreFilters ==
    { <<"MYR", "2025", "July">>, <<"MYR", "2025", "7">>, <<"USD", "2024", "6">> }

\* INSERT INTO transactions
InsertDeposit(row) ==
    /\ row \notin store
    /\ Cardinality(store) < MaxStoreRows
    /\ store' = store \cup {row}
    /\ okpi' = <<>>
    /\ UNCHANGED <<oarg, utilVars, repeatVars, setupVars, moreVars, poolVars, healthVars, fetchVars, facadeVars, now>>

\* OverviewLogic.fetchKPIData(currency, year, month) run to completion
FetchOverviewKPI(filter) ==
    /\ oarg' = filter
    /\ okpi' = SubFetch("overview", "kpiData",
                        OverviewKPIQuery(store, filter[1], filter[2], filter[3]),
                        filter[1]).val
    /\ UNCHANGED <<store, utilVars, repeatVars, setupVars, moreVars, poolVars, healthVars, fetchVars, facadeVars, now>>

----------------------------------------------------------------------------
(* calls of the functions of utils/formatters.js *)

NoCall == [fn |-> "none", args |-> <<>>]

\* the invalid inputs: null, undefined, NaN and a string that spells no number
InvalidInputs == {Null, Hole, NaN, Text}

\* the values passed to formatCurrency, formatPercentage and formatNumber
FormatInputs ==
    InvalidInputs \cup {NumericString(1250)}
      \cup { Num(h) : h \in {-4567, 0, 4567, 1000000} }

\* the currency codes passed: two currencies and a text that is no code
CurrencyCodes == {"MYR", "USD", "USDT"}

\* the values passed to formatLargeNumber
LargeInputs ==
    InvalidInputs \cup {NumericString(150000), Num(99950)}
      \cup { Whole(n) : n \in {-1500, 0, 999, 1000, 1250, 1500, 999999, 1000000,
                                2500000, 1000000000, 2000000000} }

\* the values passed to formatDuration
DurationInputs ==
    InvalidInputs \cup {NumericString(500000)}
      \cup { Whole(n) : n \in {-500, 0, 999, 5000, 65000, 3725000, 90061000} }

UtilFrame == UNCHANGED <<storeVars, repeatVars, setupVars, moreVars, poolVars, healthVars, fetchVars, facadeVars, now>>

CallFormatCurrency(amount, currency) ==
    /\ ucall' = [fn |-> "formatCurrency", args |-> <<amount, currency>>]
    /\ uout' = formatCurrencyCall(amount, currency)
    /\ UtilFrame

CallFormatPercentage(value) ==
    /\ ucall' = [fn |-> "formatPercentage", args |-> <<value>>]
    /\ uout' = formatPercentageCall(value)
    /\ UtilFrame

CallFormatNumber(value) ==
    /\ ucall' = [fn |-> "formatNumber", args |-> <<value>>]
    /\ uout' = Returned(formatNumber(value))
    /\ UtilFrame

CallFormatLargeNumber(value) ==
    /\ ucall' = [fn |-> "formatLargeNumber", args |-> <<value>>]
    /\ uout' = Returned(formatLargeNumber(value))
    /\ UtilFrame

CallFormatDuration(milliseconds) ==
    /\ ucall' = [fn |-> "formatDuration", args |-> <<milliseconds>>]
    /\ uout' = Returned(formatDuration(milliseconds))
    /\ UtilFrame

\* the numbers passed as current and previous
ChangeInputs == { Num(h) : h \in {-5000, 0, 100, 5000, 10000, 15000, 30000} }

\* calculateChange(current, previous) is called with numbers
CallCalculateChange(current, previous) ==
    /\ ucall' = [fn |-> "calculateChange", args |-> <<current, previous>>]
    /\ uout' = Returned(calculateChange(current, previous))
    /\ UNCHANGED <<storeVars, repeatVars, setupVars, moreVars, poolVars, healthVars, fetchVars, facadeVars, now>>

----------------------------------------------------------------------------
(* repeated fetches of one module against an unchanged store *)

StoreAnswers == {"failed", "empty", "rows"}

\* the data changes (or the server goes down or comes back)
StoreChange(answer) ==
    /\ answer # rstore
    /\ rstore' = answer
    /\ rkey' = <<>>
    /\ rreports' = <<>>
    /\ UNCHANGED <<storeVars, utilVars, setupVars, moreVars, poolVars, healthVars, fetchVars, facadeVars, now>>

\* fetch<Module>Data(currency, year, month) run to completion, the first call
\* since the store changed or a repetition of it
FetchModule(m, filter) ==
    /\ Len(rreports) < MaxFetches
    /\ rkey \in {<<>>, <<m, filter>>}
    /\ rkey' = <<m, filter>>
    /\ rreports' = Append(rreports, ModuleReport(m, filter, rstore, now))
    /\ UNCHANGED <<rstore, storeVars, utilVars, setupVars, moreVars, poolVars, healthVars, fetchVars,
                   facadeVars, now>>

----------------------------------------------------------------------------
(* initial states *)

\* the databases the model starts from: up or down, with at most MaxMissing
\* of the expected tables missing
Stores == { s \in SUBSET TableSet : Cardinality(TableSet \ s) <= MaxMissing }

InitPool ==
    /\ dbUp \in BOOLEAN
    /\ existing \in Stores
    /\ checkedOut = 0
    /\ xpc = [c \in Slots |-> "idle"]
    /\ xtable = [c \in Slots |-> Tables[1]]
    /\ ncalls = 0
    /\ xlog = [c \in Slots |-> NoAttempts]

InitHealth ==
    /\ hpc = "idle"
    /\ hconn = FALSE
    /\ hidx = 1
    /\ hresults = NoResults
    /\ health = NoHealth
    /\ nhealth = 0

InitFetch ==
    /\ fpc = "idle"
    /\ fmod = "none"
    /\ farg = <<"MYR", "2025", "July">>
    /\ fpart = <<>>
    /\ qres = <<>>
    /\ qissued = {}
    /\ report = NoReport

InitFacade ==
    /\ apc = "idle"
    /\ aarg = <<"MYR", "2025", "July">>
    /\ acall = <<>>
    /\ aprom = <<>>
    /\ aerr = "none"
    /\ dash = NoReport
    /\ gens = {}

InitStore ==
    /\ store = {}
    /\ oarg = <<"MYR", "2025", "July">>
    /\ okpi = <<>>

InitUtil ==
    /\ ucall = NoCall
    /\ uout = Returned(Null)

InitSetup ==
    /\ spc = "idle"
    /\ sidx = 1
    /\ sret = NoResult

InitSql ==
    /\ qsent = NoQuery
    /\ qtexts = [fn \in DbFunctions |-> {}]

InitConcurrent ==
    /\ cstore = [filter \in Filters |-> "failed"]
    /\ cmod = [c \in Callers |-> "overview"]
    /\ cpc = [c \in Callers |-> "idle"]
    /\ carg = [c \in Callers |-> InstanceFields]
    /\ cpart = [c \in Callers |-> <<>>]
    /\ creport = [c \in Callers |-> NoReport]

InitLoad ==
    /\ lpc = "idle"
    /\ lsections = 0
    /\ lwait = 0

InitRepeat ==
    /\ rstore = "empty"
    /\ rkey = <<>>
    /\ rreports = <<>>

InitMore == InitSql /\ InitConcurrent /\ InitLoad

Init ==
    /\ InitPool /\ InitHealth /\ InitFetch /\ InitFacade /\ InitStore /\ InitUtil
    /\ InitRepeat /\ InitSetup /\ InitMore
    /\ now = 0

----------------------------------------------------------------------------
(* specifications *)

\* executeQuery called by concurrent direct callers
NextPool ==
    \/ \E c \in Clients, t \in DirectTables : DirectCall(c, t)
    \/ \E c \in Clients : DirectConnect(c)
    \/ \E c \in Clients : DirectQuery(c)

SpecPool == Init /\ [][NextPool]_vars

\* getSystemHealth called repeatedly
NextHealth ==
    \/ GetSystemHealth
    \/ CheckDatabaseConnection
    \/ TestTableCall
    \/ TestTableConnect
    \/ TestTableQuery
    \/ TestTableRecord
    \/ HealthReturn
    \/ Tick

SpecHealth == Init /\ [][NextHealth]_vars

\* a module fetch over a database that is up and holds every table: what each
\* query answers is an input
InitModules == Init /\ dbUp /\ existing = TableSet

NextFetch ==
    \/ \E m \in ModuleSet, filter \in Filters : FetchData(m, filter)
    \/ \E part \in UNION { Parts(m) : m \in ModuleSet }, result \in AggregateResults \cup GroupedResults :
          SubFetchSettle(part, result)
    \/ \E part \in Sections, result \in AggregateResults : SectionSettle(part, result)
    \/ \E part \in Sections, result \in GroupedResults : SectionChartSettle(part, result)
    \/ FetchReturn

SpecFetch == InitModules /\ [][NextFetch]_vars

NextFacade ==
    \/ \E filter \in Filters : InitializeAllDashboards(filter)
    \/ \E m \in ModuleSet, outcome \in {"failed", "empty", "rejected"} : ModuleSettle(m, outcome)
    \/ \E t \in 0..MaxTime : InitializeReturn(t)

SpecFacade == InitModules /\ [][NextFacade]_vars

NextStore ==
    \/ \E row \in Deposits : InsertDeposit(row)
    \/ \E filter \in StoreFilters : FetchOverviewKPI(filter)

SpecStore == InitModules /\ [][NextStore]_vars

NextRepeat ==
    \/ \E answer \in StoreAnswers : StoreChange(answer)
    \/ \E m \in ModuleSet, filter \in Filters : FetchModule(m, filter)
    \/ Tick

SpecRepeat == InitModules /\ [][NextRepeat]_vars

\* setupDatabase run, also repeatedly, against an empty, a partly filled and
\* a fully provisioned database
InitDatabase ==
    /\ dbUp \in BOOLEAN
    /\ existing \in SetupStores
    /\ checkedOut = 0
    /\ xpc = [c \in Slots |-> "idle"]
    /\ xtable = [c \in Slots |-> Tables[1]]
    /\ ncalls = 0
    /\ xlog = [c \in Slots |-> NoAttempts]
    /\ InitHealth /\ InitFetch /\ InitFacade /\ InitStore /\ InitUtil
    /\ InitRepeat /\ InitSetup /\ InitMore
    /\ now = 0

NextSetup ==
    \/ SetupDatabase
    \/ \E accepted \in BOOLEAN : CreateTable(accepted)
    \/ SetupReturn

SpecSetup == InitDatabase /\ [][NextSetup]_vars

\* the functions that send SQL, called with any arguments in any order
NextSql ==
    \/ \E tableName \in TableNames : GetTableStructure(tableName)
    \/ \E tableName \in TableNames : TableExists(tableName)
    \/ \E tableName \in TableNames, limit \in SampleLimits : GetTableSample(tableName, limit)
    \/ \E tableName \in TableNames : GetTableCount(tableName)
    \/ \E filter \in Filters : OverviewKPISent(filter)

SpecSql == InitModules /\ [][NextSql]_vars

\* two callers of one module's entry point, running concurrently with
\* different filters
NextConcurrent ==
    \/ \E filter \in Filters, answer \in {"failed", "rows"} : DataChange(filter, answer)
    \/ \E c \in Callers, m \in ModuleSet, filter \in Filters : CallFetch(c, m, filter)
    \/ \E c \in Callers, part \in UNION { Parts(m) : m \in ModuleSet } : CallSettle(c, part)
    \/ \E c \in Callers : CallReturn(c)

SpecConcurrent == InitModules /\ [][NextConcurrent]_vars

\* one initializeAllDashboards call after the other on a pool nobody else uses
NextLoad ==
    \/ LoadCall
    \/ QueryAnswered
    \/ \E ok \in BOOLEAN : SectionQueryAnswered(ok)
    \/ WaitTimeout
    \/ LoadReturn

SpecLoad == InitModules /\ [][NextLoad]_vars

\* the aggregates a KPI query returns in its single row
KpiAggregates == {Null} \cup { Num(h) : h \in {-50000, 0, 1, 1000000} }

\* the sub-fetches that build a KPI list from the row of a KPI query
KpiParts(m) == IF m = "businessFlow" THEN Sections ELSE {"kpiData"}

\* the KPI list a fetchKPIData (a section fetch of business flow) builds from
\* result.rows[0] after its query succeeded
BuildKpiData(m, part, aggregate, currency) ==
    /\ part \in KpiParts(m)
    /\ ucall' = [fn |-> "fetchKPIData", args |-> <<m, part, aggregate, currency>>]
    /\ uout' = Returned(SubFetchBuilt(m, part, <<AggregateRow(aggregate)>>, currency))
    /\ UtilFrame

\* AVG(transfer_success_rate) of a tier: null, or a rate between 0 and 100
TierRates == {Null} \cup { Num(h) : h \in {0, 6000, 10000} }

TierRow(tier, rate) == [month |-> 0, tier |-> tier, label |-> "", value |-> rate]

\* the rows of the traffic-executive chart query: GROUP BY tier ORDER BY tier
TierRowSeqs ==
    {<<>>}
      \cup { <<TierRow(tier, rate)>> : tier \in {"Bronze", "Gold"}, rate \in TierRates }
      \cup { <<TierRow("Bronze", b), TierRow("Gold", g)>> : b \in TierRates, g \in TierRates }

\* fetchTrafficExecutiveChartData after its query succeeded
BuildTrafficExecutiveChart(rows) ==
    /\ ucall' = [fn |-> "fetchTrafficExecutiveChartData", args |-> <<rows>>]
    /\ uout' = Returned(BusinessFlow_fetchTrafficExecutiveChartData(rows))
    /\ UtilFrame

\* COUNT(DISTINCT customer_id) of a month, as hundredths: 5 or 10 customers
CustomerCounts == { Num(h) : h \in {500, 1000} }

MonthRow(month, group, nonGroup) ==
    [month |-> month, tier |-> "", label |-> "", value |-> Null,
     group_customers |-> group, non_group_customers |-> nonGroup]

MonthRowsOf(month) ==
    { MonthRow(month, group, nonGroup) : group \in CustomerCounts, nonGroup \in CustomerCounts }

\* the rows of the first-depositor chart query: GROUP BY month ORDER BY month
MonthRowSeqs ==
    {<<>>}
      \cup { <<r>> : r \in MonthRowsOf(1) \cup MonthRowsOf(7) }
      \cup { <<r1, r7>> : r1 \in MonthRowsOf(1), r7 \in MonthRowsOf(7) }

\* fetchFirstDepositorData(currency, year, month) reaching
\* chartData: await this.fetchFirstDepositorChartData(currency, year), whose
\* query succeeded
BuildFirstDepositorChart(filter, rows) ==
    /\ ucall' = [fn |-> "fetchFirstDepositorChartData", args |-> <<filter, rows>>]
    /\ uout' = Returned(BusinessFlow_fetchFirstDepositorChartData(rows))
    /\ UtilFrame

NextUtil ==
    \/ \E rows \in TierRowSeqs : BuildTrafficExecutiveChart(rows)
    \/ \E filter \in Filters, rows \in MonthRowSeqs : BuildFirstDepositorChart(filter, rows)
    \/ \E m \in ModuleSet, part \in Sections \cup {"kpiData"}, aggregate \in KpiAggregates,
          currency \in {"MYR", "USD"} : BuildKpiData(m, part, aggregate, currency)
    \/ \E current \in ChangeInputs \cup {Null}, previous \in ChangeInputs :
          CallCalculateChange(current, previous)
    \/ \E amount \in FormatInputs, currency \in CurrencyCodes :
          CallFormatCurrency(amount, currency)
    \/ \E value \in FormatInputs : CallFormatPercentage(value)
    \/ \E value \in FormatInputs : CallFormatNumber(value)
    \/ \E value \in LargeInputs : CallFormatLargeNumber(value)
    \/ \E milliseconds \in DurationInputs : CallFormatDuration(milliseconds)

SpecUtil == InitModules /\ [][NextUtil]_vars

----------------------------------------------------------------------------
(* properties of the pool and of the health report *)

\* every executeQuery call of the direct callers has completed
AllCallsComplete == \A c \in Clients : xpc[c] \in {"idle", "returned", "thrown"}

\* C1: executeQuery returns its connection to the pool on every exit path, so
\* once all calls have completed (fulfilled or rejected) no client is checked out
C1_ReleasedOnEveryPath == AllCallsComplete => checkedOut = 0

\* C10: a health report says tables = 'partial' only when database = 'healthy'
\* and at least one of the expected tables is missing
C10_PartialOnlyWhenHealthy ==
    (hpc = "done" /\ health.tables = "partial")
        => (health.database = "healthy" /\ existing # TableSet)

----------------------------------------------------------------------------
(* properties of the module fetches *)

QueriesFailed == { q \in DOMAIN qres : ~qres[q].ok }
QueriesOk == { q \in DOMAIN qres : qres[q].ok }

\* a report without its timestamp
Content(rep) == [f \in DOMAIN rep \ {"lastUpdate"} |-> rep[f]]

\* the part of a report a sub-fetch fills
Piece(rep, m, part) ==
    IF m \in {"overview", "businessFlow"} \/ part = "kpiData" THEN rep[part]
    ELSE rep.chartData[part]

\* the hardcoded report of a module: its default KPI list and default charts
StaticFallback(m) ==
    CASE m = "overview" ->
           [kpiData |-> Overview_getDefaultKPIData,
            retentionChurnData |-> Overview_getDefaultRetentionChurnData,
            clvFrequencyData |-> Overview_getDefaultCLVFrequencyData,
            growthProfitabilityData |-> Overview_getDefaultGrowthProfitabilityData,
            operationalEfficiencyData |-> Overview_getDefaultOperationalEfficiencyData]
      [] m = "businessFlow" ->
           [ppcServiceData |-> BusinessFlow_getDefaultPPCServiceData,
            firstDepositorData |-> BusinessFlow_getDefaultFirstDepositorData,
            oldMemberData |-> BusinessFlow_getDefaultOldMemberData,
            trafficExecutiveData |-> BusinessFlow_getDefaultTrafficExecutiveData]
      [] m = "strategicExecutive" ->
           [kpiData |-> StrategicExecutive_getDefaultKPIData,
            chartData |-> StrategicExecutive_getDefaultChartData]
      [] m = "bgo" -> [kpiData |-> BGO_getDefaultKPIData, chartData |-> BGO_getDefaultChartData]
      [] m = "sr" -> [kpiData |-> SR_getDefaultKPIData, chartData |-> SR_getDefaultChartData]
      [] m = "xoo" -> [kpiData |-> XOO_getDefaultKPIData, chartData |-> XOO_getDefaultChartData]
      [] m = "os" -> [kpiData |-> OS_getDefaultKPIData, chartData |-> OS_getDefaultChartData]

\* the charts of a report, each with the query that feeds it and its bucketing
ChartsOf(m, rep) ==
    IF m = "businessFlow"
      THEN UNION { { [query |-> ChartQuery(s), kind |-> BusinessFlow_kind(s, c),
                      chart |-> rep[s].chartData[c]] : c \in DOMAIN rep[s].chartData }
                   : s \in Sections }
      ELSE { [query |-> p, kind |-> Kind(m, p), chart |-> Piece(rep, m, p)]
             : p \in ChartParts(m) }

\* the chart was built from the rows of its query (not taken from a default)
FromRows(c) == c.query \in QueriesOk

Categories(chart) == IF "labels" \in DOMAIN chart THEN chart.labels ELSE chart.categories

DataSeqs(chart) ==
    IF "series" \in DOMAIN chart
      THEN { chart.series[i].data : i \in 1..Len(chart.series) }
      ELSE { chart[f] : f \in DOMAIN chart \ {"labels", "categories"} }

MonthsWithRow(rows) == { Field(rows[i], "month") : i \in 1..Len(rows) }

\* C2: whatever combination of its queries fails, a module's fetch entry point
\* completes by returning a report and never by throwing
C2_FetchNeverThrows ==
    /\ fpc # "thrown"
    /\ (fpc = "returned" => report # NoReport)
    /\ (fpc = "running" /\ (\A p \in Parts(fmod) : Settled(fpart[p])) => ENABLED FetchReturn)

\* C2 witness: a fetch returned although every one of its queries failed
C2_Witness == fpc = "returned" /\ fmod = "os" /\ QueriesOk = {} /\ QueriesFailed = Parts("os")

C4_AllFailedGivesDefaults ==
    (fpc = "returned" /\ QueriesOk = {}) => Content(report) = StaticFallback(fmod)

\* C4 witness: business flow returned after all four section queries failed
C4_Witness ==
    fpc = "returned" /\ fmod = "businessFlow" /\ QueriesOk = {} /\ QueriesFailed = Sections

\* C5: in a report built from query rows every month-bucket chart has 12
\* categories and each of its series has exactly 12 entries, 0 for a month
\* without a row, no holes
C5_MonthChartsDense ==
    fpc = "returned" =>
      \A c \in ChartsOf(fmod, report) :
        (c.kind = "month" /\ FromRows(c)) =>
          /\ Len(Categories(c.chart)) = 12
          /\ \A d \in DataSeqs(c.chart) :
               /\ Len(d) = 12
               /\ \A i \in 1..12 :
                    /\ IsNum(d[i])
                    /\ (i \notin MonthsWithRow(qres[c.query].rows) => d[i] = Num(0))

\* C6: for every filter, also one that matches no rows, every chart of the
\* report has a non-empty categories sequence and each of its data sequences
\* is as long as the categories
C6_ChartsAligned ==
    fpc = "returned" =>
      \A c \in ChartsOf(fmod, report) :
        /\ Len(Categories(c.chart)) > 0
        /\ \A d \in DataSeqs(c.chart) : Len(d) = Len(Categories(c.chart))

IsKpiList(list) ==
    \A i \in 1..Len(list) : DOMAIN list[i] = {"title", "value", "change", "icon", "color"}

\* C7 as stated: the report of every module has the fields kpiData, chartData
\* and lastUpdate
C7_ThreeFields ==
    fpc = "returned" =>
      /\ DOMAIN report = {"kpiData", "chartData", "lastUpdate"}
      /\ IsKpiList(report.kpiData)

\* C7 amended: every report has lastUpdate; the reports of strategicExecutive,
\* bgo, sr, xoo and os have kpiData and chartData (chart name -> chart); the
\* overview report has kpiData and its four charts as top-level fields, no
\* chartData; the business flow report has four sections, each with its own
\* kpiData and chartData
C7_ReportFields ==
    fpc = "returned" =>
      /\ "lastUpdate" \in DOMAIN report
      /\ CASE fmod = "overview" ->
                /\ DOMAIN report = {"kpiData", "lastUpdate"} \cup ChartParts("overview")
                /\ IsKpiList(report.kpiData)
           [] fmod = "businessFlow" ->
                /\ DOMAIN report = Sections \cup {"lastUpdate"}
                /\ \A s \in Sections :
                     /\ DOMAIN report[s] = {"kpiData", "chartData"}
                     /\ IsKpiList(report[s].kpiData)
           [] OTHER ->
                /\ DOMAIN report = {"kpiData", "chartData", "lastUpdate"}
                /\ IsKpiList(report.kpiData)
                /\ DOMAIN report.chartData = ChartParts(fmod)

\* C7 witness: the overview fetch returned a report without a chartData field
C7_Witness ==
    fpc = "returned" /\ fmod = "overview" /\ "chartData" \notin DOMAIN report

----------------------------------------------------------------------------
(* properties of initializeAllDashboards *)

\* C8: when initializeAllDashboards(currency, year, month) returns, its result
\* holds exactly one report for each of the seven modules, each fetched with
\* those three arguments, and meta echoes currency, year and month
C8_OneReportPerModule ==
    apc = "returned" =>
      /\ DOMAIN dash = ModuleSet \cup {"meta"}
      /\ \A m \in ModuleSet :
           /\ acall[m] = aarg
           /\ dash[m] = aprom[m].val
           /\ \E answer \in {"failed", "empty"} :
                Content(dash[m]) = Content(ModuleReport(m, aarg, answer, 0))
      /\ dash.meta.currency = aarg[1]
      /\ dash.meta.year = aarg[2]
      /\ dash.meta.month = aarg[3]

\* C8 witness: a call with non-default arguments returned
C8_Witness == apc = "returned" /\ aarg = <<"USD", "2024", "January">>

\* C9: if the fetch of a module throws during initializeAllDashboards, the
\* combined call throws that error and yields no combined report, not even a
\* partial one
C9_RejectionPropagates ==
    /\ (aerr # "none" => (apc \in {"running", "thrown"} /\ dash = NoReport))
    /\ (apc = "running" /\ aerr # "none" => ENABLED (\E t \in 0..MaxTime : InitializeReturn(t)))
    /\ (apc = "thrown" => (aerr \in ModuleSet /\ aprom[aerr].st = "rejected"))
    /\ (apc = "returned" => \A m \in ModuleSet : aprom[m].st = "fulfilled")

\* C9 witness: the call threw although other modules had delivered reports
C9_Witness ==
    /\ apc = "thrown"
    /\ aprom[aerr].st = "rejected"
    /\ \E m \in ModuleSet : aprom[m].st = "fulfilled"

\* C19: across sequential calls of initializeAllDashboards, the
\* meta.generatedAt of a later call is never earlier than the meta.generatedAt
\* of an earlier call
C19_GeneratedAtMonotone ==
    apc = "returned" => \A earlier \in gens : dash.meta.generatedAt >= earlier

\* C19 witness: a call returned later than an earlier call that returned too
C19_Witness ==
    /\ apc = "returned"
    /\ \E earlier \in gens : dash.meta.generatedAt > earlier

----------------------------------------------------------------------------
(* properties of getSystemHealth *)

\* C11: whatever the outcome of the connectivity probe and of the table
\* checks, getSystemHealth returns (it has no throwing exit) a result whose
\* database field is 'healthy' or 'unhealthy' and whose tables field is
\* 'healthy' or 'partial'
C11_HealthFieldValues ==
    /\ hpc \in {"idle", "probe", "tables", "done"}
    /\ (hpc = "done" =>
          /\ health.database \in {"healthy", "unhealthy"}
          /\ health.tables \in {"healthy", "partial"})
    /\ (hpc = "tables" /\ hidx > Len(Tables) => ENABLED HealthReturn)

\* C11 witness: a health check returned with the probe failed and every
\* table check failed
C11_Witness ==
    /\ hpc = "done" /\ ~dbUp
    /\ health.database = "unhealthy"
    /\ \A t \in TableSet : ~hresults[t]

----------------------------------------------------------------------------
(* properties of the overview KPIs over a store *)

\* one deposit of 10000 MYR dated July 2025
JulyDeposit == [currency |-> "MYR", year |-> 2025, month |-> 7, deposit_amount |-> 1000000]

\* C12: the overview fetch called with ("MYR", "2025", "July") against a store
\* whose only row is a deposit of 10000 MYR dated July 2025 returns a Total
\* Deposits KPI with value "RM 10,000.00" and change 100
C12_SingleDepositScenario ==
    (store = {JulyDeposit} /\ oarg = <<"MYR", "2025", "July">> /\ okpi # <<>>) =>
      /\ okpi[1].title = "Total Deposits"
      /\ okpi[1].value = "RM 10,000.00"
      /\ okpi[1].change = Num(10000)

----------------------------------------------------------------------------
(* properties of the formatters *)

\* r is x / y in hundredths, rounded down (y # 0)
IsQuotient(r, x, y) ==
    IF y > 0 THEN r * y <= x * 100 /\ x * 100 < (r + 1) * y
    ELSE r * y >= x * 100 /\ x * 100 > (r + 1) * y

\* C13: calculateChange(current, previous) returns (current - previous) /
\* previous * 100 when previous is not 0, 100 when previous is 0 and
\* current > 0, and 0 when previous is 0 and current <= 0; so (0, 0) gives 0,
\* (50, 0) gives 100, (150, 100) gives 50, and the result is a number, never
\* NaN
C13_CalculateChange ==
    ucall.fn = "calculateChange" =>
      LET current == ToNumber(ucall.args[1])
          previous == ucall.args[2].n
      IN  /\ uout.k = "returned"
          /\ IsNum(uout.val)
          /\ (previous = 0 /\ current > 0 => uout.val = Num(10000))
          /\ (previous = 0 /\ current <= 0 => uout.val = Num(0))
          /\ (previous # 0 =>
                IsQuotient(uout.val.n, (current - previous) * 100, previous))
          /\ (current = 0 /\ previous = 0 => uout.val.n = 0)
          /\ (current = 5000 /\ previous = 0 => uout.val.n = 10000)
          /\ (current = 15000 /\ previous = 10000 => uout.val.n = 5000)

\* C13 witness: calculateChange(150, 100) returned 50
C13_Witness ==
    /\ ucall = [fn |-> "calculateChange", args |-> <<Num(15000), Num(10000)>>]
    /\ uout = Returned(Num(5000))

----------------------------------------------------------------------------
(* properties of repeated fetches *)

----------------------------------------------------------------------------
(* properties of executeQuery on failure *)

\* C15: when acquiring a connection or running the query fails, executeQuery
\* makes no second attempt and throws the original error, with its original
\* message, to its caller
C15_NoRetryOriginalError ==
    \A c \in Slots :
      /\ xlog[c].connects <= 1
      /\ xlog[c].queries <= 1
      /\ (xlog[c].raised # "none" => xpc[c] \in {"thrown", "idle"})
      /\ (xpc[c] = "thrown" =>
            /\ xlog[c].raised # "none"
            /\ xlog[c].thrown = xlog[c].raised
            /\ xlog[c].connects + xlog[c].queries \in {1, 2}
            /\ (xlog[c].queries = 0 => xlog[c].raised = ConnectError)
            /\ (xlog[c].queries = 1 => xlog[c].raised = QueryError(xtable[c])))

\* C15 witness: a call failed at client.query, after its one connection
\* attempt, and threw the error of the server
C15_Witness ==
    \E c \in Clients :
      /\ xpc[c] = "thrown"
      /\ xlog[c].connects = 1 /\ xlog[c].queries = 1
      /\ xlog[c].thrown = "relation " \o xtable[c] \o " does not exist"

\* a call failed at pool.connect() and threw the error of the pool
ConnectFailureThrown ==
    \E c \in Clients :
      /\ xpc[c] = "thrown"
      /\ xlog[c].connects = 1 /\ xlog[c].queries = 0
      /\ xlog[c].thrown = "connect ECONNREFUSED"

\* the functions whose specified default for invalid input is the empty string
EmptyStringDefault == {"formatDuration"}

\* C16: every formatting function is total: for any input, also null,
\* undefined, NaN, numeric strings and unsupported currency codes, it returns
\* a string (its default for invalid input, the empty string for the
\* duration formatter) and never throws
C16_FormattersTotal ==
    ucall.fn \in {"formatCurrency", "formatPercentage", "formatNumber",
                  "formatLargeNumber", "formatDuration"} =>
      /\ uout.k = "returned"
      /\ (ucall.fn \in EmptyStringDefault /\ ucall.args[1] \in InvalidInputs
            => uout.val = "")

\* C17: formatCurrency(amount, code) returns '<code> 0.00' for every code
\* when amount is null, undefined or NaN, and formatPercentage(value) returns
\* '0.00%' when value is null, undefined or NaN
C17_InvalidInputDefaults ==
    /\ (ucall.fn = "formatCurrency" /\ ucall.args[1] \in {Null, Hole, NaN}
          => uout = Returned(ucall.args[2] \o " 0.00"))
    /\ (ucall.fn = "formatPercentage" /\ ucall.args[1] \in {Null, Hole, NaN}
          => uout = Returned("0.00%"))

\* C17 witness: formatCurrency(null, 'USD') returned 'USD 0.00'
C17_Witness ==
    /\ ucall = [fn |-> "formatCurrency", args |-> <<Null, "USD">>]
    /\ uout = Returned("USD 0.00")

\* C18: formatLargeNumber(value) returns value unabbreviated when value <
\* 1000, and value divided by 1e3, 1e6 or 1e9 with one decimal and the suffix
\* K, M or B when value is in [1e3, 1e6), in [1e6, 1e9) or at or above 1e9;
\* so 999 gives '999', 1500 gives '1.5K' and 2500000 gives '2.5M'
C18_LargeNumber ==
    (ucall.fn = "formatLargeNumber" /\ ucall.args[1].k = "whole") =>
      LET n == ucall.args[1].n
      IN  /\ uout.k = "returned"
          /\ (n < 1000 => uout.val = ToString(n))
          /\ (n >= 1000 /\ n < 1000000 => uout.val = OneDecimal(n, 1000) \o "K")
          /\ (n >= 1000000 /\ n < 1000000000 => uout.val = OneDecimal(n, 1000000) \o "M")
          /\ (n >= 1000000000 => uout.val = OneDecimal(n, 1000000000) \o "B")
          /\ (n = 999 => uout.val = "999")
          /\ (n = 1500 => uout.val = "1.5K")
          /\ (n = 2500000 => uout.val = "2.5M")
          /\ (n = 1000 => uout.val = "1.0K")
          /\ (n = 2000000000 => uout.val = "2.0B")

\* C18 witness: formatLargeNumber(2500000) returned '2.5M'
C18_Witness ==
    /\ ucall = [fn |-> "formatLargeNumber", args |-> <<Whole(2500000)>>]
    /\ uout = Returned("2.5M")

----------------------------------------------------------------------------
(* properties of setupDatabase *)

\* C20: after setupDatabase (initializeDatabaseTables) has returned true,
\* every table that any of the seven logic modules queries exists
C20_QueriedTablesExist ==
    sret = Returned(TRUE) =>
      \A m \in ModuleSet : QueriedTables(m) \subseteq existing

\* after setupDatabase has returned true, the fourteen tables of
\* createTablesQueries exist
C20_CreatedTablesExist ==
    sret = Returned(TRUE) => TableSet \subseteq existing

----------------------------------------------------------------------------
(* properties of the SQL text *)

\* C21: every database call passes caller-supplied values only as positional
\* parameters: for any two calls of the same function that differ only in
\* their arguments, the SQL text sent to the database is the same
C21_SameTextForAllArguments ==
    \A fn \in DbFunctions : Cardinality(qtexts[fn]) <= 1

\* the functions that do bind their arguments send one text whatever the
\* arguments
C21_BoundFunctionsSameText ==
    \A fn \in {"getTableStructure", "tableExists", "OverviewLogic.fetchKPIData"} :
      Cardinality(qtexts[fn]) <= 1

----------------------------------------------------------------------------
(* properties of the queries of a module fetch *)

\* C22: for every module, a fetch issues all of its aggregation queries in
\* parallel: every query of the fetch is issued before the result of any of
\* them is awaited, and whether a query is issued never depends on the outcome
\* of another query of the same fetch
C22_AllIssuedBeforeAnyResult ==
    /\ (fpc = "running" => AllQueries(fmod) \subseteq qissued)
    /\ (fpc \in {"returned", "thrown"} => qissued = AllQueries(fmod))

\* every module but business flow issues all its queries at once
C22_ParallelButBusinessFlow ==
    fpc # "idle" /\ fmod # "businessFlow" => qissued = AllQueries(fmod)

\* business flow has returned and the chart query of a section was never
\* issued, because the section's own query had failed
C22_ChartQueryNotIssued ==
    /\ fpc = "returned" /\ fmod = "businessFlow"
    /\ \E p \in Sections : ~qres[p].ok /\ ChartQuery(p) \notin qissued

\* what the sub-fetch named part returns, given what its queries answered
ValueOf(m, part, currency, answers) ==
    IF m # "businessFlow" THEN SubFetch(m, part, answers[part], currency).val
    ELSE IF ~answers[part].ok THEN GetDefault(m, part)
    ELSE [kpiData |-> SubFetchBuilt(m, part, answers[part].rows, currency),
          chartData |-> ChartFetch(part, answers[ChartQuery(part)]).val]

\* C23: for every order in which the sibling queries of a module fetch
\* complete, the fetch returns the same report, each query's result appearing
\* under its own KPI or chart name
C23_SameReportInEveryOrder ==
    fpc = "returned" =>
      \A p \in Parts(fmod) :
        /\ p \in DOMAIN qres
        /\ (fmod = "businessFlow" /\ qres[p].ok => ChartQuery(p) \in DOMAIN qres)
        /\ Piece(report, fmod, p) = ValueOf(fmod, p, farg[1], qres)

\* C23 witness: a fetch returned whose sibling queries had answered
\* differently, some with rows and some with an error
C23_Witness ==
    /\ fpc = "returned"
    /\ fmod = "os"
    /\ \E p, q \in Parts(fmod) :
         /\ qres[p].ok /\ ~qres[q].ok
         /\ Piece(report, fmod, p) # OS_getDefault(p)

----------------------------------------------------------------------------
(* properties of concurrent fetches *)

----------------------------------------------------------------------------
(* properties of the KPI entries *)

----------------------------------------------------------------------------
(* properties of the chart values *)

\* C26: every value in every chart series of a report built from query rows
\* is a number: an aggregate that the database returns as null is replaced
\* by 0 in every chart builder
\* (stated for the charts that take one value per row; the charts filled by
\* month or tier index are left aside here)
C26_ChartValuesAreNumbers ==
    fpc = "returned" =>
      \A c \in ChartsOf(fmod, report) :
        (c.kind \notin {"month", "tier"} /\ FromRows(c)) =>
          \A d \in DataSeqs(c.chart) : \A i \in 1..Len(d) : IsNum(d[i])

\* the strategic-executive report holds a null in the series of its
\* customer-volume chart, built from a row whose aggregate is null
C26_NullInSeries ==
    /\ fpc = "returned" /\ fmod = "strategicExecutive"
    /\ qres["customerVolumeDept"].ok
    /\ \E i \in 1..Len(qres["customerVolumeDept"].rows) :
         /\ qres["customerVolumeDept"].rows[i].value = Null
         /\ report.chartData.customerVolumeDept.series[2].data[i] = Null

\* the chart builders that write row.x || 0 hold no null: the system
\* performance chart of the os module
C26_GuardedBuilderNumbers ==
    (fpc = "returned" /\ fmod = "os" /\ qres["systemPerformance"].ok) =>
      \A f \in {"cpuUsage", "memoryUsage", "diskUsage", "networkUsage"} :
        \A i \in 1..Len(report.chartData.systemPerformance[f]) :
          IsNum(report.chartData.systemPerformance[f][i])

----------------------------------------------------------------------------
(* properties of the pool under health checks *)

\* C27: a getSystemHealth call (connectivity probe plus testDatabaseTables)
\* leaves the connection pool as it found it: for every outcome of the table
\* checks, including missing tables, the number of connections available
\* after the call equals the number before it, so no number of repeated
\* health checks exhausts the pool (here the health checks are the only
\* callers and the pool starts with no client checked out)
C27_PoolLeftAsFound ==
    hpc \in {"idle", "done"} => checkedOut = 0

\* with every table present the pool is left as found
C27_NoLeakWhenAllTablesExist ==
    (existing = TableSet /\ hpc \in {"idle", "done"}) => checkedOut = 0

\* each health check keeps one client for every missing table
C27_OneClientPerMissingTable ==
    (dbUp /\ hpc = "done") => checkedOut = nhealth * Cardinality(TableSet \ existing)

----------------------------------------------------------------------------
(* properties of the load on the pool *)

\* C28: during one initializeAllDashboards call, the number of queries
\* outstanding against the pool at the same time never exceeds the pool's
\* maximum of 20 connections
C28_OutstandingWithinPool ==
    lpc = "running" => checkedOut + lwait <= PoolMax

\* the pool never hands out more than its maximum of clients
C28_ClientsWithinPool == checkedOut <= PoolMax

\* queries of the call are waiting for a client while all clients are in use
C28_QueriesWaiting == lpc = "running" /\ checkedOut = PoolMax /\ lwait > 0

----------------------------------------------------------------------------
(* properties of the derived two-value charts of business flow *)

\* C29: whenever Traffic Executive chart data is built from query rows, the
\* two transferSuccessRate values ('Success' and 'Failed') are each within
\* [0, 100] and sum to 100
C29_SuccessAndFailedInRange ==
    ucall.fn = "fetchTrafficExecutiveChartData" =>
      LET data == uout.val.transferSuccessRate.data
      IN  /\ Len(data) = 2
          /\ \A i \in 1..2 : IsNum(data[i]) /\ data[i].n >= 0 /\ data[i].n <= 10000
          /\ data[1].n + data[2].n = 10000

\* the two values sum to 100, 'Success' being the sum of the tiers' averages
C29_FailedIsRest ==
    ucall.fn = "fetchTrafficExecutiveChartData" =>
      LET data == uout.val.transferSuccessRate.data
          rows == ucall.args[1]
      IN  /\ data[1].n = ReduceSumFrom([i \in 1..Len(rows) |-> rows[i].value], 1)
          /\ data[1].n + data[2].n = 10000

\* with at most one tier in the rows both values are within [0, 100]
C29_OneTierInRange ==
    (ucall.fn = "fetchTrafficExecutiveChartData" /\ Len(ucall.args[1]) <= 1) =>
      \A i \in 1..2 : LET v == uout.val.transferSuccessRate.data[i].n
                       IN  v >= 0 /\ v <= 10000

MonthNames ==
    <<"January", "February", "March", "April", "May", "June", "July", "August",
      "September", "October", "November", "December">>

\* the number of the month a filter names
MonthNumber(filter) == CHOOSE n \in 1..Len(MonthNames) : MonthNames[n] = filter[3]

\* C30: whenever First Depositor chart data is built from query rows, the
\* two values of customerCountByGroup are the group_customers and
\* non_group_customers aggregates of the month given in the fetch filter
\* (stated for the results that hold a row of that month)
C30_CountsOfFilterMonth ==
    ucall.fn = "fetchFirstDepositorChartData" =>
      LET rows == ucall.args[2]
          data == uout.val.customerCountByGroup.data
      IN  \A i \in 1..Len(rows) :
            rows[i].month = MonthNumber(ucall.args[1]) =>
              /\ data[1] = rows[i].group_customers
              /\ data[2] = rows[i].non_group_customers

\* the first value is the group_customers aggregate of July whatever month
\* the filter names (0 without a row of July), the second is 0.8 times the
\* first
C30_JulyAndFourFifths ==
    ucall.fn = "fetchFirstDepositorChartData" =>
      LET rows == ucall.args[2]
          data == uout.val.customerCountByGroup.data
      IN  /\ \A i \in 1..Len(rows) : rows[i].month = 7 => data[1] = rows[i].group_customers
          /\ ((\A i \in 1..Len(rows) : rows[i].month # 7) => data[1] = Num(0))
          /\ data[2] = Times08(data[1])

====
